---- MODULE Spec2Model ----
(***************************************************************************)
(* Real-time collaboration service of sermon-deck                          *)
(* (packages/api/src/services/collaboration.ts).                           *)
(*                                                                         *)
(* Every socket handler is an async function: the code between two awaits  *)
(* runs atomically, and at each await other handlers may run.  One action  *)
(* of this model is one awaited store call taking effect, followed by the  *)
(* synchronous code up to the point where the next call is issued.  The    *)
(* first action of a handler is the arrival of its event and its first     *)
(* awaited call.                                                           *)
(*                                                                         *)
(* Each connection has at most one handler in flight; the connections s1   *)
(* and s3 belong to the same user, so two handlers of one user can be in   *)
(* flight together.  Clients send leave, cursor and block:edit only for    *)
(* rooms their socket is in (the handlers themselves do not check this).   *)
(* The session store (redis) is available throughout; the 24 h expiry of   *)
(* its keys (SESSION_EXPIRY) lies beyond the time horizon of the model.    *)
(* Document store (prisma) calls may fail.                                 *)
(*                                                                         *)
(* The specifications share the handlers:                                  *)
(*   Spec         all handlers and the cleanup interval, with the store;   *)
(*   SpecEdit     block:edit of one connection over every content and      *)
(*                operation of a bounded set;                              *)
(*   SpecNoRedis  the handlers as they run when redis is null;             *)
(*   SpecLock     cursor, block:edit and the clock for one user on two     *)
(*                connections;                                             *)
(*   SpecAuth     the handshake, then the handlers;                        *)
(*   SpecFaults   join, leave, cursor and block:edit when calls to the     *)
(*                session store may reject;                                *)
(*   SpecContent  block:delete and comment:add over every role and every   *)
(*                list of collaborators;                                   *)
(*   SpecClient   the joinSession calls of the browser client;             *)
(*   SpecRecovery the client across disconnects and reconnects;            *)
(*   SpecOpen     block:edit, block:create and block:delete naming any     *)
(*                room, joined or not;                                     *)
(*   SpecOutcome  block:edit when every awaited call may reject.           *)
(***************************************************************************)
EXTENDS Integers, Sequences, FiniteSets, TLC

\* ------------------------------------------------------------------ bounds
MaxEvents == 4      \* client events, disconnects and sweeps in one behaviour
MaxTicks  == 3      \* advances of the clock
TickMs    == 15000  \* milliseconds per advance of the clock
MaxFaults == 1      \* failing document store calls
MaxInflight == 2    \* handlers (and sweeps) in flight together
MaxContentLen == 3  \* characters of a block's initial content (SpecEdit)
MaxOffset == 1      \* how far positions and lengths go out of range (SpecEdit)
MaxEdits  == 2      \* edits in one behaviour of SpecEdit
MaxAuthEvents == 3  \* client events and disconnects in one behaviour of SpecAuth
MaxFaultEvents == 3 \* client events in one behaviour of SpecFaults
MaxContentEvents == 2 \* client events in one behaviour of SpecContent
MaxCalls == 2       \* joinSession calls in one behaviour of SpecClient
MaxClientTicks == 3 \* advances of the clock in one behaviour of SpecClient
MaxOpenEvents == 3  \* events of SpecOpen
MaxOutcomeEvents == 3  \* block:edit events of SpecOutcome
MaxEditFaults == 2  \* rejected calls of SpecOutcome, the second one in the lock release
MaxDrops == 3       \* disconnects, unexpected or not, in one behaviour of SpecRecovery
ClientTickMs == 5000 \* one advance of the clock of SpecClient, in ms

\* --------------------------------------------------------------- constants
LOCK_TIMEOUT == 30000
JOIN_TIMEOUT == 10000
OPERATIONS_MAX_LENGTH == 100

\* ---------------------------------------------------------------- universe
Users   == {"u1", "u2"}
Sockets == {"s1", "s2", "s3"}
Rooms   == {"sermon:d1", "sermon:d2"}
Blocks  == {"b1"}

\* socket.data.auth.userId, attached by the authentication middleware
UserOf(s) == IF s = "s2" THEN "u2" ELSE "u1"

\* the document store's sermon table: creator and collaborators
SermonCreatedBy(r)     == "u1"
SermonCollaborators(r) == IF r = "sermon:d1" THEN {"u2"} ELSE {}

\* mutant of checkCollaborationAccess: every principal has access
checkCollaborationAccess_open(u, r) == TRUE

checkCollaborationAccess(u, r) ==
    SermonCreatedBy(r) = u \/ u \in SermonCollaborators(r)

\* cursor positions and edit operations a client may send
CursorPositions == {[blockId |-> "b1", position |-> 0]}
NoCursor        == [blockId |-> "", position |-> 0]

Operations ==
    { [type |-> "insert",  has |-> {"position", "text"},   position |-> 0, length |-> 0, text |-> <<"a">>],
      [type |-> "replace", has |-> {"text"},               position |-> 0, length |-> 0, text |-> <<"b">>] }

\* ----------------------------------------------------------------- helpers
NoSession == [null |-> TRUE]
NoBlock   == <<"<missing>">>
NoEmit    == [event |-> "none"]
Idle      == [kind |-> "none"]

RemoveKey(f, k) == [x \in (DOMAIN f) \ {k} |-> f[x]]
Put(f, k, v)    == (k :> v) @@ f

Min(a, b) == IF a < b THEN a ELSE b
Max(a, b) == IF a > b THEN a ELSE b

\* String.prototype.substring(start, end): both clamped into [0, length],
\* swapped when start > end
substring(str, start, end) ==
    LET a  == Min(Max(start, 0), Len(str))
        b  == Min(Max(end, 0), Len(str))
        lo == Min(a, b)
        hi == Max(a, b)
    IN  SubSeq(str, lo + 1, hi)

substringFrom(str, start) == substring(str, start, Len(str))

\* ------------------------------------------------------------------- state
VARIABLES
    now,           \* Date.now(), in ms
    sessions,      \* redis: SESSION_PREFIX + roomId -> SessionMetadata
    userSessions,  \* redis: USER_SESSIONS_PREFIX + userId -> set of roomIds
    rooms,         \* socket.io adapter: roomId -> sockets joined
    connected,     \* socket -> still connected
    blocks,        \* prisma sermonBlock: blockId -> content
    versions,      \* prisma sermonBlockVersion: blockId -> contents appended
    authRole,      \* socket -> socket.data.auth.role
    collaborators, \* prisma sermonCollaborator: roomId -> (userId -> role)
    comments,      \* prisma comment: the rows created, oldest first
    notifications, \* prisma notification: the rows created, oldest first
    client,        \* the browser client of one connection (socket-provider.tsx)
    pc,            \* socket -> position of its handler in flight
    loc,           \* socket -> locals of its handler in flight
    spc,           \* position of the cleanup interval callback
    sloc,          \* locals of the cleanup interval callback
    lastEmit,      \* what the last step emitted, and to which sockets
    events,        \* events started so far
    ticks,         \* advances of the clock so far
    faults         \* document store failures so far

vars == <<now, sessions, userSessions, rooms, connected, blocks, versions,
          authRole, collaborators, comments, notifications, client,
          pc, loc, spc, sloc, lastEmit, events, ticks, faults>>

storeVars == <<sessions, userSessions>>
peopleVars == <<authRole, collaborators>>
commentVars == <<comments, notifications>>
\* the document store, with the client, which no handler of the service touches
dbVars    == <<blocks, versions, peopleVars, commentVars, client>>
sweepVars == <<spc, sloc>>

\* the client before its first call: connect() has run while activeSession
\* was null, no joinSession issued, nothing on the wire.  captured is the
\* activeSession the handlers registered by connect() see; sessionAtDrop
\* remembers the activeSession the last unexpected disconnect cleared
IdleClient == [calls |-> <<>>, requests |-> <<>>, inbox |-> <<>>,
               activeSession |-> "none", socket |-> TRUE, captured |-> "none",
               sessionAtDrop |-> "none"]

\* every connection authenticated as a pastor, every collaborator an editor,
\* no comment and no notification yet, the client idle
InitPeople ==
    /\ client = IdleClient
    /\ authRole = [s \in Sockets |-> "PASTOR"]
    /\ collaborators = [r \in Rooms |-> [u \in SermonCollaborators(r) |-> "EDITOR"]]
    /\ comments = <<>>
    /\ notifications = <<>>

Init ==
    /\ now = 0
    /\ sessions = [r \in Rooms |-> NoSession]
    /\ userSessions = [u \in Users |-> {}]
    /\ rooms = [r \in Rooms |-> {}]
    /\ connected = [s \in Sockets |-> TRUE]
    /\ blocks = [b \in Blocks |-> <<"x">>]
    /\ versions = [b \in Blocks |-> <<>>]
    /\ InitPeople
    /\ pc = [s \in Sockets |-> "idle"]
    /\ loc = [s \in Sockets |-> Idle]
    /\ spc = "idle"
    /\ sloc = Idle
    /\ lastEmit = NoEmit
    /\ events = 0
    /\ ticks = 0
    /\ faults = 0

\* ---------------------------------------------------------------- emitting
\* mutant of EmitToSocket: io.to(roomId) written for socket
EmitToSocket_toRoom(s, ev, r, data) ==
    [event |-> ev, sessionId |-> r, userId |-> UserOf(s), from |-> s,
     to |-> rooms[r] \cup {s}, data |-> data]

\* socket.emit(...): to the socket alone
EmitToSocket(s, ev, r, data) ==
    [event |-> ev, sessionId |-> r, userId |-> UserOf(s), from |-> s,
     to |-> {s}, data |-> data]

\* mutant of EmitToOthers: io.to(roomId) written for socket.to(roomId)
EmitToOthers_includesSender(s, ev, r, data) ==
    [event |-> ev, sessionId |-> r, userId |-> UserOf(s), from |-> s,
     to |-> rooms[r], data |-> data]

\* socket.to(roomId).emit(...): to the room, the sender excluded
EmitToOthers(s, ev, r, data) ==
    [event |-> ev, sessionId |-> r, userId |-> UserOf(s), from |-> s,
     to |-> rooms[r] \ {s}, data |-> data]

\* io.to(roomId).emit(...): to every socket of the room
EmitToRoom(s, ev, r, data) ==
    [event |-> ev, sessionId |-> r, userId |-> UserOf(s), from |-> s,
     to |-> rooms[r], data |-> data]

Inflight ==
    Cardinality({s \in Sockets : pc[s] # "idle"}) + (IF spc # "idle" THEN 1 ELSE 0)

CanStart(s) ==
    /\ connected[s]
    /\ pc[s] = "idle"
    /\ events < MaxEvents
    /\ Inflight < MaxInflight

Finish(s) ==
    /\ pc' = [pc EXCEPT ![s] = "idle"]
    /\ loc' = [loc EXCEPT ![s] = Idle]

Goto(s, label, locals) ==
    /\ pc' = [pc EXCEPT ![s] = label]
    /\ loc' = [loc EXCEPT ![s] = locals]

\* -------------------------------------------------------------------- join
\* new CollaborationUser for the joiner (name, avatar and lastActivity are not
\* modelled: nothing in the service reads them)
collaborationUser(u) == [id |-> u, cursor |-> NoCursor]

\* the session a join writes, from what its redis.get returned
JoinSession(sessionData, r, u) ==
    IF sessionData # NoSession
    THEN [sessionData EXCEPT !.activeUsers = Put(@, u, collaborationUser(u))]
    ELSE [entityId |-> r,
          activeUsers |-> (u :> collaborationUser(u)),
          operations |-> <<>>,
          locks |-> << >>]

\* 'join' arrives; checkCollaborationAccess resolves; socket.join(roomId)
JoinStart(s, r) ==
    /\ CanStart(s)
    /\ events' = events + 1
    /\ IF ~checkCollaborationAccess(UserOf(s), r)
       THEN /\ lastEmit' = EmitToSocket(s, "error", r, [code |-> "PERMISSION_DENIED"])
            /\ UNCHANGED <<rooms, pc, loc>>
       ELSE /\ rooms' = [rooms EXCEPT ![r] = @ \cup {s}]
            /\ Goto(s, "join_user", [kind |-> "join", roomId |-> r])
            /\ lastEmit' = NoEmit
    /\ UNCHANGED <<now, storeVars, connected, dbVars, sweepVars, ticks, faults>>

\* prisma.user.findUnique resolves with the user
JoinUser(s) ==
    /\ pc[s] = "join_user"
    /\ Goto(s, "join_get", loc[s])
    /\ lastEmit' = NoEmit
    /\ UNCHANGED <<now, storeVars, rooms, connected, dbVars, sweepVars, events, ticks, faults>>

\* prisma.user.findUnique resolves with null: USER_NOT_FOUND
JoinUserNotFound(s) ==
    /\ pc[s] = "join_user"
    /\ faults < MaxFaults
    /\ faults' = faults + 1
    /\ lastEmit' = EmitToSocket(s, "error", loc[s].roomId, [code |-> "USER_NOT_FOUND"])
    /\ Finish(s)
    /\ UNCHANGED <<now, storeVars, rooms, connected, dbVars, sweepVars, events, ticks>>

\* prisma.user.findUnique rejects: the outer catch sends JOIN_ERROR
JoinUserFails(s) ==
    /\ pc[s] = "join_user"
    /\ faults < MaxFaults
    /\ faults' = faults + 1
    /\ lastEmit' = EmitToSocket(s, "error", loc[s].roomId, [code |-> "JOIN_ERROR"])
    /\ Finish(s)
    /\ UNCHANGED <<now, storeVars, rooms, connected, dbVars, sweepVars, events, ticks>>

\* redis.get(sessionKey) resolves; the session to write is built
JoinGet(s) ==
    /\ pc[s] = "join_get"
    /\ Goto(s, "join_set",
            [loc[s] EXCEPT !.kind = "join"] @@
            [session |-> JoinSession(sessions[loc[s].roomId], loc[s].roomId, UserOf(s))])
    /\ lastEmit' = NoEmit
    /\ UNCHANGED <<now, storeVars, rooms, connected, dbVars, sweepVars, events, ticks, faults>>

\* redis.set(sessionKey, JSON.stringify(session))
JoinSet(s) ==
    /\ pc[s] = "join_set"
    /\ sessions' = [sessions EXCEPT ![loc[s].roomId] = loc[s].session]
    /\ Goto(s, "join_sadd", [kind |-> "join", roomId |-> loc[s].roomId])
    /\ lastEmit' = NoEmit
    /\ UNCHANGED <<now, userSessions, rooms, connected, dbVars, sweepVars, events, ticks, faults>>

\* redis.sadd(user's sessions, roomId)
JoinSadd(s) ==
    /\ pc[s] = "join_sadd"
    /\ userSessions' = [userSessions EXCEPT ![UserOf(s)] = @ \cup {loc[s].roomId}]
    /\ Goto(s, "join_expire", loc[s])
    /\ lastEmit' = NoEmit
    /\ UNCHANGED <<now, sessions, rooms, connected, dbVars, sweepVars, events, ticks, faults>>

\* redis.expire resolves; socket.to(roomId).emit(USER_JOINED)
JoinExpire(s) ==
    /\ pc[s] = "join_expire"
    /\ lastEmit' = EmitToOthers(s, "user_joined", loc[s].roomId, [userId |-> UserOf(s)])
    /\ Goto(s, "join_snapshot", loc[s])
    /\ UNCHANGED <<now, storeVars, rooms, connected, dbVars, sweepVars, events, ticks, faults>>

\* the snapshot sent to the joiner: Object.values(session.activeUsers)
Snapshot(session) == [activeUsers |-> DOMAIN session.activeUsers]

\* second redis.get(sessionKey) resolves; socket.emit('session', ...)
JoinSnapshot(s) ==
    /\ pc[s] = "join_snapshot"
    /\ lastEmit' =
         IF sessions[loc[s].roomId] # NoSession
         THEN EmitToSocket(s, "session", loc[s].roomId, Snapshot(sessions[loc[s].roomId]))
         ELSE NoEmit
    /\ Finish(s)
    /\ UNCHANGED <<now, storeVars, rooms, connected, dbVars, sweepVars, events, ticks, faults>>

\* ------------------------------------------------------------------- leave
\* the participant and its locks removed, as the leave handler does
LeaveSession(session, u) ==
    [session EXCEPT
        !.activeUsers = RemoveKey(@, u),
        !.locks = [b \in {x \in DOMAIN @ : @[x].userId # u} |-> @[b]]]

\* 'leave' arrives; socket.leave(roomId)
LeaveStart(s, r) ==
    /\ CanStart(s)
    /\ s \in rooms[r]
    /\ events' = events + 1
    /\ rooms' = [rooms EXCEPT ![r] = @ \ {s}]
    /\ Goto(s, "leave_get", [kind |-> "leave", roomId |-> r])
    /\ lastEmit' = NoEmit
    /\ UNCHANGED <<now, storeVars, connected, dbVars, sweepVars, ticks, faults>>

\* redis.get(sessionKey) resolves; without a session, USER_LEFT is emitted at once
LeaveGet(s) ==
    /\ pc[s] = "leave_get"
    /\ IF sessions[loc[s].roomId] = NoSession
       THEN /\ lastEmit' = EmitToRoom(s, "user_left", loc[s].roomId, [userId |-> UserOf(s)])
            /\ Finish(s)
       ELSE /\ Goto(s, "leave_set",
                    loc[s] @@ [session |-> LeaveSession(sessions[loc[s].roomId], UserOf(s))])
            /\ lastEmit' = NoEmit
    /\ UNCHANGED <<now, storeVars, rooms, connected, dbVars, sweepVars, events, ticks, faults>>

\* mutant of LeaveWrite: the session is written back even when it is empty
LeaveWrite_keepsEmpty(session) == session

\* what leave writes back: the session while it has users, else nothing
LeaveWrite(session) ==
    IF Cardinality(DOMAIN session.activeUsers) > 0 THEN session ELSE NoSession

\* redis.set(sessionKey, ...) or redis.del(sessionKey)
LeaveSet(s) ==
    /\ pc[s] = "leave_set"
    /\ sessions' = [sessions EXCEPT ![loc[s].roomId] = LeaveWrite(loc[s].session)]
    /\ Goto(s, "leave_srem", [kind |-> "leave", roomId |-> loc[s].roomId])
    /\ lastEmit' = NoEmit
    /\ UNCHANGED <<now, userSessions, rooms, connected, dbVars, sweepVars, events, ticks, faults>>

\* redis.srem(user's sessions, roomId); io.to(roomId).emit(USER_LEFT)
LeaveSrem(s) ==
    /\ pc[s] = "leave_srem"
    /\ userSessions' = [userSessions EXCEPT ![UserOf(s)] = @ \ {loc[s].roomId}]
    /\ lastEmit' = EmitToRoom(s, "user_left", loc[s].roomId, [userId |-> UserOf(s)])
    /\ Finish(s)
    /\ UNCHANGED <<now, sessions, rooms, connected, dbVars, sweepVars, events, ticks, faults>>

\* ------------------------------------------------------------------ cursor
\* the session a cursor event writes: the sender's cursor
CursorSession(session, u, position) ==
    [session EXCEPT !.activeUsers[u].cursor = position]

\* 'cursor' arrives; redis.get(sessionKey) resolves.  A sender that is not
\* in the session writes nothing and CURSOR_MOVED is emitted at once
CursorStart(s, r, position) ==
    /\ CanStart(s)
    /\ s \in rooms[r]
    /\ events' = events + 1
    /\ IF sessions[r] # NoSession /\ UserOf(s) \in DOMAIN sessions[r].activeUsers
       THEN /\ Goto(s, "cursor_set",
                    [kind |-> "cursor", roomId |-> r, position |-> position,
                     session |-> CursorSession(sessions[r], UserOf(s), position)])
            /\ lastEmit' = NoEmit
       ELSE /\ lastEmit' = EmitToOthers(s, "cursor_moved", r,
                                        [userId |-> UserOf(s), position |-> position])
            /\ UNCHANGED <<pc, loc>>
    /\ UNCHANGED <<now, storeVars, rooms, connected, dbVars, sweepVars, ticks, faults>>

\* redis.set(sessionKey, ...); socket.to(roomId).emit(CURSOR_MOVED)
CursorSet(s) ==
    /\ pc[s] = "cursor_set"
    /\ sessions' = [sessions EXCEPT ![loc[s].roomId] = loc[s].session]
    /\ lastEmit' = EmitToOthers(s, "cursor_moved", loc[s].roomId,
                                [userId |-> UserOf(s), position |-> loc[s].position])
    /\ Finish(s)
    /\ UNCHANGED <<now, userSessions, rooms, connected, dbVars, sweepVars, events, ticks, faults>>

\* -------------------------------------------------------------- block:edit
\* mutant of LockedByOther: the expiry comparison inverted
LockedByOther_inverted(session, b, u) ==
    /\ b \in DOMAIN session.locks
    /\ session.locks[b].userId # u
    /\ session.locks[b].expires < now

\* mutant of LockedByOther: a lock is still honoured at its expiry time
LockedByOther_inclusive(session, b, u) ==
    /\ b \in DOMAIN session.locks
    /\ session.locks[b].userId # u
    /\ session.locks[b].expires >= now

\* the lock check of block:edit: locked by another user and not expired
LockedByOther(session, b, u) ==
    /\ b \in DOMAIN session.locks
    /\ session.locks[b].userId # u
    /\ session.locks[b].expires > now

\* the lock block:edit installs
NewLock(u) == [userId |-> u, expires |-> now + LOCK_TIMEOUT]

\* session.operations.push(fullOperation), then slice(-OPERATIONS_MAX_LENGTH)
PushOperation(operations, fullOperation) ==
    LET pushed == Append(operations, fullOperation)
    IN  IF Len(pushed) > OPERATIONS_MAX_LENGTH
        THEN SubSeq(pushed, Len(pushed) - OPERATIONS_MAX_LENGTH + 1, Len(pushed))
        ELSE pushed

\* the session block:edit writes: the lock installed, the operation logged
EditSession(session, b, u, operation) ==
    [session EXCEPT
        !.locks = Put(@, b, NewLock(u)),
        !.operations = PushOperation(@,
            [operation |-> operation, blockId |-> b, userId |-> u])]

\* a lock on b that the lock check of block:edit still honours
ValidLock(session, b) ==
    b \in DOMAIN session.locks /\ session.locks[b].expires > now

\* 'block:edit' arrives; redis.get(sessionKey) resolves; the lock check
EditStart(s, r, b, operation) ==
    /\ CanStart(s)
    /\ s \in rooms[r]
    /\ events' = events + 1
    /\ IF sessions[r] = NoSession
       THEN /\ Goto(s, "edit_find",
                    [kind |-> "edit", roomId |-> r, blockId |-> b, operation |-> operation,
                     acquired |-> FALSE, lockFree |-> TRUE])
            /\ lastEmit' = NoEmit
       ELSE IF LockedByOther(sessions[r], b, UserOf(s))
       THEN /\ lastEmit' = EmitToSocket(s, "error", r,
                              [code |-> "BLOCK_LOCKED", blockId |-> b,
                               lockedBy |-> sessions[r].locks[b].userId])
            /\ UNCHANGED <<pc, loc>>
       ELSE /\ Goto(s, "edit_set",
                    [kind |-> "edit", roomId |-> r, blockId |-> b, operation |-> operation,
                     acquired |-> TRUE, lockFree |-> ~ValidLock(sessions[r], b),
                     session |-> EditSession(sessions[r], b, UserOf(s), operation)])
            /\ lastEmit' = NoEmit
    /\ UNCHANGED <<now, storeVars, rooms, connected, dbVars, sweepVars, ticks, faults>>

EditLocals(l) ==
    [kind |-> "edit", roomId |-> l.roomId, blockId |-> l.blockId,
     operation |-> l.operation, acquired |-> l.acquired, lockFree |-> l.lockFree]

\* redis.set(sessionKey, ...): the session with the lock is written back
EditSet(s) ==
    /\ pc[s] = "edit_set"
    /\ sessions' = [sessions EXCEPT ![loc[s].roomId] = loc[s].session]
    /\ Goto(s, "edit_find", EditLocals(loc[s]))
    /\ lastEmit' = NoEmit
    /\ UNCHANGED <<now, userSessions, rooms, connected, dbVars, sweepVars, events, ticks, faults>>

\* mutant of ApplyOperation: insert overwrites the content with the text
ApplyOperation_insertOverwrites(content, operation) ==
    IF operation.type \in {"insert", "replace"} /\ "text" \in operation.has
    THEN operation.text
    ELSE content

\* the switch on operation.type
ApplyOperation(content, operation) ==
    CASE operation.type = "insert" ->
           IF "position" \in operation.has /\ "text" \in operation.has /\ Len(operation.text) > 0
           THEN substring(content, 0, operation.position) \o operation.text
                \o substringFrom(content, operation.position)
           ELSE content
      [] operation.type = "delete" ->
           IF "position" \in operation.has /\ "length" \in operation.has /\ operation.length # 0
           THEN substring(content, 0, operation.position)
                \o substringFrom(content, operation.position + operation.length)
           ELSE content
      [] operation.type = "replace" ->
           IF "text" \in operation.has THEN operation.text ELSE content
      [] OTHER -> content

\* the inner catch: EDIT_ERROR to the sender, then the lock is to be released
EditFails(s) ==
    /\ faults' = faults + 1
    /\ lastEmit' = EmitToSocket(s, "error", loc[s].roomId,
                                [code |-> "EDIT_ERROR", blockId |-> loc[s].blockId])
    /\ Goto(s, "edit_release_get", EditLocals(loc[s]))

\* prisma.sermonBlock.findUnique resolves; the new content is computed
EditFind(s) ==
    /\ pc[s] = "edit_find"
    /\ IF blocks[loc[s].blockId] = NoBlock
       THEN /\ lastEmit' = EmitToSocket(s, "error", loc[s].roomId,
                                [code |-> "EDIT_ERROR", blockId |-> loc[s].blockId])
            /\ Goto(s, "edit_release_get", EditLocals(loc[s]))
       ELSE /\ Goto(s, "edit_update",
                    EditLocals(loc[s]) @@
                    [newContent |-> ApplyOperation(blocks[loc[s].blockId], loc[s].operation)])
            /\ lastEmit' = NoEmit
    /\ UNCHANGED <<now, storeVars, rooms, connected, dbVars, sweepVars, events, ticks, faults>>

\* prisma.sermonBlock.findUnique rejects (a transient document store failure)
EditFindFails(s) ==
    /\ pc[s] = "edit_find"
    /\ faults < MaxFaults
    /\ EditFails(s)
    /\ UNCHANGED <<now, storeVars, rooms, connected, dbVars, sweepVars, events, ticks>>

\* prisma.sermonBlock.update resolves (it rejects when the block is gone)
EditUpdate(s) ==
    /\ pc[s] = "edit_update"
    /\ IF blocks[loc[s].blockId] = NoBlock
       THEN /\ lastEmit' = EmitToSocket(s, "error", loc[s].roomId,
                                [code |-> "EDIT_ERROR", blockId |-> loc[s].blockId])
            /\ Goto(s, "edit_release_get", EditLocals(loc[s]))
            /\ UNCHANGED blocks
       ELSE /\ blocks' = [blocks EXCEPT ![loc[s].blockId] = loc[s].newContent]
            /\ Goto(s, "edit_version", loc[s])
            /\ lastEmit' = NoEmit
    /\ UNCHANGED <<now, storeVars, rooms, connected, versions, peopleVars, commentVars, client,
                   sweepVars, events, ticks, faults>>

\* prisma.sermonBlock.update rejects
EditUpdateFails(s) ==
    /\ pc[s] = "edit_update"
    /\ faults < MaxFaults
    /\ EditFails(s)
    /\ UNCHANGED <<now, storeVars, rooms, connected, dbVars, sweepVars, events, ticks>>

\* prisma.sermonBlockVersion.create resolves; io.to(roomId).emit(BLOCK_UPDATED)
EditVersion(s) ==
    /\ pc[s] = "edit_version"
    /\ versions' = [versions EXCEPT ![loc[s].blockId] = Append(@, loc[s].newContent)]
    /\ lastEmit' = EmitToRoom(s, "block_updated", loc[s].roomId,
                              [blockId |-> loc[s].blockId, content |-> loc[s].newContent])
    /\ Finish(s)
    /\ UNCHANGED <<now, storeVars, rooms, connected, blocks, peopleVars, commentVars, client,
                   sweepVars, events, ticks, faults>>

\* prisma.sermonBlockVersion.create rejects
EditVersionFails(s) ==
    /\ pc[s] = "edit_version"
    /\ faults < MaxFaults
    /\ EditFails(s)
    /\ UNCHANGED <<now, storeVars, rooms, connected, dbVars, sweepVars, events, ticks>>

\* the lock release of the inner catch: only the sender's own lock is deleted
HoldsLock(session, b, u) ==
    b \in DOMAIN session.locks /\ session.locks[b].userId = u

\* mutant of ReleaseSession: the lock is not deleted before the write
ReleaseSession_keepsLock(session, b) == session

\* delete session.locks[blockId]
ReleaseSession(session, b) == [session EXCEPT !.locks = RemoveKey(@, b)]

\* redis.get(sessionKey) of the release resolves
EditReleaseGet(s) ==
    /\ pc[s] = "edit_release_get"
    /\ IF /\ sessions[loc[s].roomId] # NoSession
          /\ HoldsLock(sessions[loc[s].roomId], loc[s].blockId, UserOf(s))
       THEN Goto(s, "edit_release_set",
                 EditLocals(loc[s]) @@
                 [session |-> ReleaseSession(sessions[loc[s].roomId], loc[s].blockId)])
       ELSE Finish(s)
    /\ lastEmit' = NoEmit
    /\ UNCHANGED <<now, storeVars, rooms, connected, dbVars, sweepVars, events, ticks, faults>>

\* redis.set(sessionKey, ...) of the release
EditReleaseSet(s) ==
    /\ pc[s] = "edit_release_set"
    /\ sessions' = [sessions EXCEPT ![loc[s].roomId] = loc[s].session]
    /\ lastEmit' = NoEmit
    /\ Finish(s)
    /\ UNCHANGED <<now, userSessions, rooms, connected, dbVars, sweepVars, events, ticks, faults>>

\* -------------------------------------------------------------- disconnect
\* the participant and its locks removed, as the disconnect handler does
DisconnectSession(session, u) ==
    [session EXCEPT
        !.activeUsers = RemoveKey(@, u),
        !.locks = [b \in {x \in DOMAIN @ : @[x].userId # u} |-> @[b]]]

\* after one room of the loop: the next redis.get, or the final redis.del
DisconnectContinue(s, todo, joined) ==
    Goto(s, IF todo = {} THEN "disconnect_del" ELSE "disconnect_get",
         [kind |-> "disconnect", activeSessions |-> todo, joined |-> joined])

\* the socket disconnects: socket.io takes it out of its rooms, 'disconnect'
\* fires and redis.smembers(user's sessions) resolves
DisconnectStart(s) ==
    /\ CanStart(s)
    /\ events' = events + 1
    /\ connected' = [connected EXCEPT ![s] = FALSE]
    /\ rooms' = [r \in Rooms |-> rooms[r] \ {s}]
    /\ DisconnectContinue(s, userSessions[UserOf(s)], {r \in Rooms : s \in rooms[r]})
    /\ lastEmit' = NoEmit
    /\ UNCHANGED <<now, storeVars, dbVars, sweepVars, ticks, faults>>

\* redis.get(sessionKey) for the next room of the loop
DisconnectGet(s) ==
    /\ pc[s] = "disconnect_get"
    /\ \E r \in loc[s].activeSessions :
         IF sessions[r] = NoSession
         THEN DisconnectContinue(s, loc[s].activeSessions \ {r}, loc[s].joined)
         ELSE Goto(s, "disconnect_set",
                   [kind |-> "disconnect", activeSessions |-> loc[s].activeSessions \ {r},
                    joined |-> loc[s].joined, roomId |-> r,
                    session |-> DisconnectSession(sessions[r], UserOf(s))])
    /\ lastEmit' = NoEmit
    /\ UNCHANGED <<now, storeVars, rooms, connected, dbVars, sweepVars, events, ticks, faults>>

\* redis.set(sessionKey, ...) and USER_LEFT to the room, or redis.del(sessionKey)
DisconnectSet(s) ==
    /\ pc[s] = "disconnect_set"
    /\ IF Cardinality(DOMAIN loc[s].session.activeUsers) > 0
       THEN /\ sessions' = [sessions EXCEPT ![loc[s].roomId] = loc[s].session]
            /\ lastEmit' = EmitToRoom(s, "user_left", loc[s].roomId, [userId |-> UserOf(s)])
       ELSE /\ sessions' = [sessions EXCEPT ![loc[s].roomId] = NoSession]
            /\ lastEmit' = NoEmit
    /\ DisconnectContinue(s, loc[s].activeSessions, loc[s].joined)
    /\ UNCHANGED <<now, userSessions, rooms, connected, dbVars, sweepVars, events, ticks, faults>>

\* redis.del(user's sessions)
DisconnectDel(s) ==
    /\ pc[s] = "disconnect_del"
    /\ userSessions' = [userSessions EXCEPT ![UserOf(s)] = {}]
    /\ lastEmit' = NoEmit
    /\ Finish(s)
    /\ UNCHANGED <<now, sessions, rooms, connected, dbVars, sweepVars, events, ticks, faults>>

\* ----------------------------------------------------------------- cleanup
\* the locks the cleanup deletes: expires < Date.now()
SweepSession(session) ==
    [session EXCEPT !.locks = [b \in {x \in DOMAIN @ : ~(@[x].expires < now)} |-> @[b]]]

SweepContinue(todo) ==
    /\ spc' = IF todo = {} THEN "idle" ELSE "sweep_get"
    /\ sloc' = IF todo = {} THEN Idle ELSE [kind |-> "sweep", sessionKeys |-> todo]

\* the interval fires; redis.keys(SESSION_PREFIX + '*') resolves
SweepStart ==
    /\ spc = "idle"
    /\ events < MaxEvents
    /\ Inflight < MaxInflight
    /\ events' = events + 1
    /\ SweepContinue({r \in Rooms : sessions[r] # NoSession})
    /\ lastEmit' = NoEmit
    /\ UNCHANGED <<now, storeVars, rooms, connected, dbVars, pc, loc, ticks, faults>>

\* redis.get(sessionKey) for the next key; expired locks are deleted
SweepGet ==
    /\ spc = "sweep_get"
    /\ \E r \in sloc.sessionKeys :
         IF sessions[r] # NoSession /\ SweepSession(sessions[r]) # sessions[r]
         THEN /\ spc' = "sweep_set"
              /\ sloc' = [kind |-> "sweep", sessionKeys |-> sloc.sessionKeys \ {r},
                          roomId |-> r, session |-> SweepSession(sessions[r])]
         ELSE SweepContinue(sloc.sessionKeys \ {r})
    /\ lastEmit' = NoEmit
    /\ UNCHANGED <<now, storeVars, rooms, connected, dbVars, pc, loc, events, ticks, faults>>

\* redis.set(sessionKey, ...): only when a lock was deleted
SweepSet ==
    /\ spc = "sweep_set"
    /\ sessions' = [sessions EXCEPT ![sloc.roomId] = sloc.session]
    /\ SweepContinue(sloc.sessionKeys)
    /\ lastEmit' = NoEmit
    /\ UNCHANGED <<now, userSessions, rooms, connected, dbVars, pc, loc, events, ticks, faults>>

\* ------------------------------------------------------------------- clock
\* a lock somewhere: in the store or in a session a handler is about to write
SomeLock ==
    \/ \E r \in Rooms : sessions[r] # NoSession /\ DOMAIN sessions[r].locks # {}
    \/ \E s \in Sockets : "session" \in DOMAIN loc[s] /\ DOMAIN loc[s].session.locks # {}
    \/ "session" \in DOMAIN sloc /\ DOMAIN sloc.session.locks # {}

\* time passes.  Lock expiries are the only timestamps of the state, so the
\* clock is advanced only while there is a lock
Tick ==
    /\ ticks < MaxTicks
    /\ SomeLock
    /\ ticks' = ticks + 1
    /\ now' = now + TickMs
    /\ lastEmit' = NoEmit
    /\ UNCHANGED <<storeVars, rooms, connected, dbVars, pc, loc, sweepVars, events, faults>>

Next ==
    \/ \E s \in Sockets, r \in Rooms : JoinStart(s, r)
    \/ \E s \in Sockets : JoinUser(s)
    \/ \E s \in Sockets : JoinUserNotFound(s)
    \/ \E s \in Sockets : JoinUserFails(s)
    \/ \E s \in Sockets : JoinGet(s)
    \/ \E s \in Sockets : JoinSet(s)
    \/ \E s \in Sockets : JoinSadd(s)
    \/ \E s \in Sockets : JoinExpire(s)
    \/ \E s \in Sockets : JoinSnapshot(s)
    \/ \E s \in Sockets, r \in Rooms : LeaveStart(s, r)
    \/ \E s \in Sockets : LeaveGet(s)
    \/ \E s \in Sockets : LeaveSet(s)
    \/ \E s \in Sockets : LeaveSrem(s)
    \/ \E s \in Sockets, r \in Rooms, p \in CursorPositions : CursorStart(s, r, p)
    \/ \E s \in Sockets : CursorSet(s)
    \/ \E s \in Sockets, r \in Rooms, b \in Blocks, o \in Operations : EditStart(s, r, b, o)
    \/ \E s \in Sockets : EditSet(s)
    \/ \E s \in Sockets : EditFind(s)
    \/ \E s \in Sockets : EditFindFails(s)
    \/ \E s \in Sockets : EditUpdate(s)
    \/ \E s \in Sockets : EditUpdateFails(s)
    \/ \E s \in Sockets : EditVersion(s)
    \/ \E s \in Sockets : EditVersionFails(s)
    \/ \E s \in Sockets : EditReleaseGet(s)
    \/ \E s \in Sockets : EditReleaseSet(s)
    \/ \E s \in Sockets : DisconnectStart(s)
    \/ \E s \in Sockets : DisconnectGet(s)
    \/ \E s \in Sockets : DisconnectSet(s)
    \/ \E s \in Sockets : DisconnectDel(s)
    \/ SweepStart
    \/ SweepGet
    \/ SweepSet
    \/ Tick

Spec == Init /\ [][Next]_vars

\* ------------------------------------------------- one editor, any operation
\* SpecEdit: the block:edit handler of one connection, run on every content
\* and every operation of a bounded set.  It starts in the state after user
\* u1 joined sermon:d1 on connection s1; no document store call fails.
Chars == {"a", "b"}

Contents == UNION {[1..n -> Chars] : n \in 0..MaxContentLen}

Positions == (0 - MaxOffset)..(MaxContentLen + MaxOffset)
Lengths   == (0 - MaxOffset)..(MaxContentLen + MaxOffset)
Texts     == {<< >>, <<"a">>, <<"b", "a">>}

\* the operations a client may send: position, length and text are optional
\* and nothing validates them
EditOperations ==
    {[type |-> "insert", has |-> {"position", "text"}, position |-> p, length |-> 0, text |-> x] :
        p \in Positions, x \in Texts}
    \cup {[type |-> "insert", has |-> {"text"}, position |-> 0, length |-> 0, text |-> <<"a">>]}
    \cup {[type |-> "delete", has |-> {"position", "length"}, position |-> p, length |-> l, text |-> << >>] :
        p \in Positions, l \in Lengths}
    \cup {[type |-> "replace", has |-> {"text"}, position |-> 0, length |-> 0, text |-> x] :
        x \in Texts}
    \cup {[type |-> "replace", has |-> {}, position |-> 0, length |-> 0, text |-> << >>]}

InitEdit ==
    /\ now = 0
    /\ sessions = [r \in Rooms |-> IF r = "sermon:d1"
                                   THEN JoinSession(NoSession, r, "u1")
                                   ELSE NoSession]
    /\ userSessions = [u \in Users |-> IF u = "u1" THEN {"sermon:d1"} ELSE {}]
    /\ rooms = [r \in Rooms |-> IF r = "sermon:d1" THEN {"s1"} ELSE {}]
    /\ connected = [s \in Sockets |-> TRUE]
    /\ blocks \in [Blocks -> Contents]
    /\ versions = [b \in Blocks |-> <<>>]
    /\ InitPeople
    /\ pc = [s \in Sockets |-> "idle"]
    /\ loc = [s \in Sockets |-> Idle]
    /\ spc = "idle"
    /\ sloc = Idle
    /\ lastEmit = NoEmit
    /\ events = 0
    /\ ticks = 0
    /\ faults = 0

NextEdit ==
    \/ \E s \in Sockets, r \in Rooms, b \in Blocks, o \in EditOperations :
          events < MaxEdits /\ EditStart(s, r, b, o)
    \/ \E s \in Sockets : EditSet(s)
    \/ \E s \in Sockets : EditFind(s)
    \/ \E s \in Sockets : EditUpdate(s)
    \/ \E s \in Sockets : EditVersion(s)

SpecEdit == InitEdit /\ [][NextEdit]_vars

\* ------------------------------------------------- without the session store
\* SpecNoRedis: the handlers as they run when setupCollaborationHandlers is
\* given redis = null.  Every `if (redis)` block is skipped: no session
\* record is read or written and no cleanup interval is set up, so the store
\* variables, the sweep and the clock never change.

\* prisma.user.findUnique resolves with the user; USER_JOINED goes to the
\* others and 'session' to the joiner, in one synchronous stretch
JoinUserNoRedis(s) ==
    /\ pc[s] = "join_user"
    /\ lastEmit' =
         [EmitToSocket(s, "session", loc[s].roomId,
                       [activeUsers |-> {collaborationUser(UserOf(s)).id}])
          EXCEPT !.data = @ @@
              [preceded |-> EmitToOthers(s, "user_joined", loc[s].roomId,
                                         [userId |-> UserOf(s)])]]
    /\ Finish(s)
    /\ UNCHANGED <<now, storeVars, rooms, connected, dbVars, sweepVars, events, ticks, faults>>

\* 'leave' arrives; socket.leave(roomId); io.to(roomId).emit(USER_LEFT)
LeaveNoRedis(s, r) ==
    /\ CanStart(s)
    /\ s \in rooms[r]
    /\ events' = events + 1
    /\ rooms' = [rooms EXCEPT ![r] = @ \ {s}]
    /\ lastEmit' = [EmitToRoom(s, "user_left", r, [userId |-> UserOf(s)])
                    EXCEPT !.to = rooms'[r]]
    /\ UNCHANGED <<now, storeVars, connected, dbVars, pc, loc, sweepVars, ticks, faults>>

\* 'cursor' arrives; socket.to(roomId).emit(CURSOR_MOVED)
CursorNoRedis(s, r, position) ==
    /\ CanStart(s)
    /\ s \in rooms[r]
    /\ events' = events + 1
    /\ lastEmit' = EmitToOthers(s, "cursor_moved", r,
                                [userId |-> UserOf(s), position |-> position])
    /\ UNCHANGED <<now, storeVars, rooms, connected, dbVars, pc, loc, sweepVars, ticks, faults>>

\* 'block:edit' arrives; nothing is checked and prisma.sermonBlock.findUnique
\* is issued
EditStartNoRedis(s, r, b, operation) ==
    /\ CanStart(s)
    /\ s \in rooms[r]
    /\ events' = events + 1
    /\ Goto(s, "edit_find",
            [kind |-> "edit", roomId |-> r, blockId |-> b, operation |-> operation,
             acquired |-> FALSE, lockFree |-> TRUE])
    /\ lastEmit' = NoEmit
    /\ UNCHANGED <<now, storeVars, rooms, connected, dbVars, sweepVars, ticks, faults>>

\* a document store call of the edit rejects: the inner catch sends
\* EDIT_ERROR and has no lock to release
EditFailsNoRedis(s) ==
    /\ pc[s] \in {"edit_find", "edit_update", "edit_version"}
    /\ faults < MaxFaults
    /\ faults' = faults + 1
    /\ lastEmit' = EmitToSocket(s, "error", loc[s].roomId,
                                [code |-> "EDIT_ERROR", blockId |-> loc[s].blockId])
    /\ Finish(s)
    /\ UNCHANGED <<now, storeVars, rooms, connected, dbVars, sweepVars, events, ticks>>

\* the socket disconnects: socket.io takes it out of its rooms
DisconnectNoRedis(s) ==
    /\ CanStart(s)
    /\ events' = events + 1
    /\ connected' = [connected EXCEPT ![s] = FALSE]
    /\ rooms' = [r \in Rooms |-> rooms[r] \ {s}]
    /\ lastEmit' = NoEmit
    /\ UNCHANGED <<now, storeVars, dbVars, pc, loc, sweepVars, ticks, faults>>

NextNoRedis ==
    \/ \E s \in Sockets, r \in Rooms : JoinStart(s, r)
    \/ \E s \in Sockets : JoinUserNoRedis(s)
    \/ \E s \in Sockets : JoinUserNotFound(s)
    \/ \E s \in Sockets : JoinUserFails(s)
    \/ \E s \in Sockets, r \in Rooms : LeaveNoRedis(s, r)
    \/ \E s \in Sockets, r \in Rooms, p \in CursorPositions : CursorNoRedis(s, r, p)
    \/ \E s \in Sockets, r \in Rooms, b \in Blocks, o \in Operations :
          EditStartNoRedis(s, r, b, o)
    \/ \E s \in Sockets : EditFind(s)
    \/ \E s \in Sockets : EditUpdate(s)
    \/ \E s \in Sockets : EditVersion(s)
    \/ \E s \in Sockets : EditFailsNoRedis(s)
    \/ \E s \in Sockets : DisconnectNoRedis(s)

SpecNoRedis == Init /\ [][NextNoRedis]_vars

\* ------------------------------------------------ one user, two connections
\* SpecLock: edits and cursor moves of a user who has joined sermon:d1 on
\* the connections s1 and s3, while time passes.  It starts in the state
\* after both joins completed; no document store call fails.
InitLock ==
    /\ now = 0
    /\ sessions = [r \in Rooms |-> IF r = "sermon:d1"
                                   THEN JoinSession(NoSession, r, "u1")
                                   ELSE NoSession]
    /\ userSessions = [u \in Users |-> IF u = "u1" THEN {"sermon:d1"} ELSE {}]
    /\ rooms = [r \in Rooms |-> IF r = "sermon:d1" THEN {"s1", "s3"} ELSE {}]
    /\ connected = [s \in Sockets |-> TRUE]
    /\ blocks = [b \in Blocks |-> <<"x">>]
    /\ versions = [b \in Blocks |-> <<>>]
    /\ InitPeople
    /\ pc = [s \in Sockets |-> "idle"]
    /\ loc = [s \in Sockets |-> Idle]
    /\ spc = "idle"
    /\ sloc = Idle
    /\ lastEmit = NoEmit
    /\ events = 0
    /\ ticks = 0
    /\ faults = 0

NextLock ==
    \/ \E s \in Sockets, r \in Rooms, p \in CursorPositions : CursorStart(s, r, p)
    \/ \E s \in Sockets : CursorSet(s)
    \/ \E s \in Sockets, r \in Rooms, b \in Blocks, o \in Operations : EditStart(s, r, b, o)
    \/ \E s \in Sockets : EditSet(s)
    \/ \E s \in Sockets : EditFind(s)
    \/ \E s \in Sockets : EditUpdate(s)
    \/ \E s \in Sockets : EditVersion(s)
    \/ Tick

SpecLock == InitLock /\ [][NextLock]_vars

\* ---------------------------------------------------------- authentication
\* SpecAuth: every connection starts in its handshake, with a token that is
\* missing, invalid or valid; the middleware decides, and the handlers of
\* the accepted connections run.  No document store call fails.
Tokens == {"none", "invalid", "valid"}

\* mutant of jwtVerify: every token passes
jwtVerify_acceptsAll(token) == TRUE

\* jwt.verify(token, secret): returns the payload of a valid token, throws
\* for any other
jwtVerify(token) == token = "valid"

\* the io.use middleware: next(new Error(...)) refuses the connection, so
\* the 'connection' listener never runs for it; next() lets it run, with
\* socket.data.auth attached
Authenticate(s) ==
    /\ pc[s] = "handshake"
    /\ IF loc[s].token = "none" \/ ~jwtVerify(loc[s].token)
       THEN /\ connected' = [connected EXCEPT ![s] = FALSE]
            /\ loc' = [loc EXCEPT ![s] = [kind |-> "rejected"]]
       ELSE /\ connected' = [connected EXCEPT ![s] = TRUE]
            /\ loc' = [loc EXCEPT ![s] = Idle]
    /\ pc' = [pc EXCEPT ![s] = "idle"]
    /\ lastEmit' = NoEmit
    /\ UNCHANGED <<now, storeVars, rooms, dbVars, sweepVars, events, ticks, faults>>

InitAuth ==
    /\ now = 0
    /\ sessions = [r \in Rooms |-> NoSession]
    /\ userSessions = [u \in Users |-> {}]
    /\ rooms = [r \in Rooms |-> {}]
    /\ connected = [s \in Sockets |-> FALSE]
    /\ blocks = [b \in Blocks |-> <<"x">>]
    /\ versions = [b \in Blocks |-> <<>>]
    /\ InitPeople
    /\ pc = [s \in Sockets |-> "handshake"]
    /\ loc \in [Sockets -> {[kind |-> "handshake", token |-> k] : k \in Tokens}]
    /\ spc = "idle"
    /\ sloc = Idle
    /\ lastEmit = NoEmit
    /\ events = 0
    /\ ticks = 0
    /\ faults = 0

NextAuth ==
    \/ \E s \in Sockets : Authenticate(s)
    \/ \E s \in Sockets, r \in Rooms :
          events < MaxAuthEvents /\ JoinStart(s, r)
    \/ \E s \in Sockets, r \in Rooms :
          events < MaxAuthEvents /\ LeaveStart(s, r)
    \/ \E s \in Sockets, r \in Rooms, p \in CursorPositions :
          events < MaxAuthEvents /\ CursorStart(s, r, p)
    \/ \E s \in Sockets, r \in Rooms, b \in Blocks, o \in Operations :
          events < MaxAuthEvents /\ EditStart(s, r, b, o)
    \/ \E s \in Sockets :
          events < MaxAuthEvents /\ DisconnectStart(s)
    \/ \E s \in Sockets : JoinUser(s)
    \/ \E s \in Sockets : JoinGet(s)
    \/ \E s \in Sockets : JoinSet(s)
    \/ \E s \in Sockets : JoinSadd(s)
    \/ \E s \in Sockets : JoinExpire(s)
    \/ \E s \in Sockets : JoinSnapshot(s)
    \/ \E s \in Sockets : LeaveGet(s)
    \/ \E s \in Sockets : LeaveSet(s)
    \/ \E s \in Sockets : LeaveSrem(s)
    \/ \E s \in Sockets : CursorSet(s)
    \/ \E s \in Sockets : EditSet(s)
    \/ \E s \in Sockets : EditFind(s)
    \/ \E s \in Sockets : EditUpdate(s)
    \/ \E s \in Sockets : EditVersion(s)
    \/ \E s \in Sockets : DisconnectGet(s)
    \/ \E s \in Sockets : DisconnectSet(s)
    \/ \E s \in Sockets : DisconnectDel(s)

SpecAuth == InitAuth /\ [][NextAuth]_vars

\* ---------------------------------------------------- session store failures
\* SpecFaults: join, leave, cursor and block:edit when a call to the session
\* store (redis) may reject as well as a call to the document store.  A
\* rejected call throws at its await and the handler's catch block runs.

\* a redis call of the join handler rejects: the catch sends JOIN_ERROR
JoinStoreFails(s) ==
    /\ pc[s] \in {"join_get", "join_set", "join_sadd", "join_expire", "join_snapshot"}
    /\ faults < MaxFaults
    /\ faults' = faults + 1
    /\ lastEmit' = EmitToSocket(s, "error", loc[s].roomId, [code |-> "JOIN_ERROR"])
    /\ Finish(s)
    /\ UNCHANGED <<now, storeVars, rooms, connected, dbVars, sweepVars, events, ticks>>

\* a redis call of the leave handler rejects: the catch only logs
LeaveStoreFails(s) ==
    /\ pc[s] \in {"leave_get", "leave_set", "leave_srem"}
    /\ faults < MaxFaults
    /\ faults' = faults + 1
    /\ lastEmit' = NoEmit
    /\ Finish(s)
    /\ UNCHANGED <<now, storeVars, rooms, connected, dbVars, sweepVars, events, ticks>>

\* 'cursor' arrives and its redis.get rejects: the catch only logs
CursorGetFails(s, r, position) ==
    /\ CanStart(s)
    /\ s \in rooms[r]
    /\ faults < MaxFaults
    /\ events' = events + 1
    /\ faults' = faults + 1
    /\ lastEmit' = NoEmit
    /\ UNCHANGED <<now, storeVars, rooms, connected, dbVars, pc, loc, sweepVars, ticks>>

\* the redis.set of the cursor handler rejects: the catch only logs
CursorSetFails(s) ==
    /\ pc[s] = "cursor_set"
    /\ faults < MaxFaults
    /\ faults' = faults + 1
    /\ lastEmit' = NoEmit
    /\ Finish(s)
    /\ UNCHANGED <<now, storeVars, rooms, connected, dbVars, sweepVars, events, ticks>>

\* 'block:edit' arrives and its redis.get rejects: the outer catch sends
\* EDIT_ERROR
EditGetFails(s, r, b, operation) ==
    /\ CanStart(s)
    /\ s \in rooms[r]
    /\ faults < MaxFaults
    /\ events' = events + 1
    /\ faults' = faults + 1
    /\ lastEmit' = EmitToSocket(s, "error", r, [code |-> "EDIT_ERROR"])
    /\ UNCHANGED <<now, storeVars, rooms, connected, dbVars, pc, loc, sweepVars, ticks>>

\* the redis.set of block:edit rejects: the outer catch sends EDIT_ERROR
EditSetFails(s) ==
    /\ pc[s] = "edit_set"
    /\ faults < MaxFaults
    /\ faults' = faults + 1
    /\ lastEmit' = EmitToSocket(s, "error", loc[s].roomId, [code |-> "EDIT_ERROR"])
    /\ Finish(s)
    /\ UNCHANGED <<now, storeVars, rooms, connected, dbVars, sweepVars, events, ticks>>

NextFaults ==
    \/ \E s \in Sockets, r \in Rooms :
          events < MaxFaultEvents /\ JoinStart(s, r)
    \/ \E s \in Sockets : JoinUser(s)
    \/ \E s \in Sockets : JoinUserNotFound(s)
    \/ \E s \in Sockets : JoinUserFails(s)
    \/ \E s \in Sockets : JoinGet(s)
    \/ \E s \in Sockets : JoinSet(s)
    \/ \E s \in Sockets : JoinSadd(s)
    \/ \E s \in Sockets : JoinExpire(s)
    \/ \E s \in Sockets : JoinSnapshot(s)
    \/ \E s \in Sockets : JoinStoreFails(s)
    \/ \E s \in Sockets, r \in Rooms :
          events < MaxFaultEvents /\ LeaveStart(s, r)
    \/ \E s \in Sockets : LeaveGet(s)
    \/ \E s \in Sockets : LeaveSet(s)
    \/ \E s \in Sockets : LeaveSrem(s)
    \/ \E s \in Sockets : LeaveStoreFails(s)
    \/ \E s \in Sockets, r \in Rooms, p \in CursorPositions :
          events < MaxFaultEvents /\ CursorStart(s, r, p)
    \/ \E s \in Sockets, r \in Rooms, p \in CursorPositions :
          events < MaxFaultEvents /\ CursorGetFails(s, r, p)
    \/ \E s \in Sockets : CursorSet(s)
    \/ \E s \in Sockets : CursorSetFails(s)
    \/ \E s \in Sockets, r \in Rooms, b \in Blocks, o \in Operations :
          events < MaxFaultEvents /\ EditStart(s, r, b, o)
    \/ \E s \in Sockets, r \in Rooms, b \in Blocks, o \in Operations :
          events < MaxFaultEvents /\ EditGetFails(s, r, b, o)
    \/ \E s \in Sockets : EditSet(s)
    \/ \E s \in Sockets : EditSetFails(s)
    \/ \E s \in Sockets : EditFind(s)
    \/ \E s \in Sockets : EditFindFails(s)
    \/ \E s \in Sockets : EditUpdate(s)
    \/ \E s \in Sockets : EditUpdateFails(s)
    \/ \E s \in Sockets : EditVersion(s)
    \/ \E s \in Sockets : EditVersionFails(s)
    \/ \E s \in Sockets : EditReleaseGet(s)
    \/ \E s \in Sockets : EditReleaseSet(s)

SpecFaults == Init /\ [][NextFaults]_vars

\* ------------------------------------------------- block:delete, comment:add
\* SpecContent: the two handlers over every role a connection can carry and
\* every list of collaborators the schema allows (sermon_collaborators is
\* unique on (sermonId, userId) and does not exclude the creator).  Neither
\* handler reads the session store or checks that the sender joined the
\* room.  Comments are made on the sermon (blockId absent).
UserRoles         == {"PASTOR", "ADMIN"}
CollaboratorRoles == {"EDITOR", "VIEWER"}
CollaboratorLists == UNION {[c -> CollaboratorRoles] : c \in SUBSET Users}

\* block.sermon: the sermon of every block of the model
SermonOf(b) == "sermon:d1"

\* block.sermon.createdById === auth.userId
isCreator(s, b) == SermonCreatedBy(SermonOf(b)) = UserOf(s)

\* mutant of isEditor: any collaborator row counts
isEditor_anyRole(s, b) == UserOf(s) \in DOMAIN collaborators[SermonOf(b)]

\* block.sermon.collaborators (the caller's rows) .some(role === EDITOR)
isEditor(s, b) ==
    /\ UserOf(s) \in DOMAIN collaborators[SermonOf(b)]
    /\ collaborators[SermonOf(b)][UserOf(s)] = "EDITOR"

\* 'block:delete' arrives; prisma.sermonBlock.findUnique resolves.  A missing
\* block and a caller without the right throw: DELETE_ERROR to the sender
DeleteStart(s, r, b) ==
    /\ CanStart(s)
    /\ events' = events + 1
    /\ IF \/ blocks[b] = NoBlock
          \/ (~isCreator(s, b) /\ ~isEditor(s, b) /\ authRole[s] # "ADMIN")
       THEN /\ lastEmit' = EmitToSocket(s, "error", r, [code |-> "DELETE_ERROR"])
            /\ UNCHANGED <<pc, loc>>
       ELSE /\ Goto(s, "delete_delete", [kind |-> "delete", roomId |-> r, blockId |-> b])
            /\ lastEmit' = NoEmit
    /\ UNCHANGED <<now, storeVars, rooms, connected, dbVars, sweepVars, ticks, faults>>

\* 'block:delete' arrives and findUnique rejects
DeleteFindFails(s, r, b) ==
    /\ CanStart(s)
    /\ faults < MaxFaults
    /\ events' = events + 1
    /\ faults' = faults + 1
    /\ lastEmit' = EmitToSocket(s, "error", r, [code |-> "DELETE_ERROR"])
    /\ UNCHANGED <<now, storeVars, rooms, connected, dbVars, pc, loc, sweepVars, ticks>>

\* prisma.sermonBlock.delete resolves (its versions go with it, onDelete:
\* Cascade) and BLOCK_DELETED goes to the room; it rejects when the row is
\* gone already
DeleteDelete(s) ==
    /\ pc[s] = "delete_delete"
    /\ IF blocks[loc[s].blockId] = NoBlock
       THEN /\ lastEmit' = EmitToSocket(s, "error", loc[s].roomId, [code |-> "DELETE_ERROR"])
            /\ UNCHANGED <<blocks, versions>>
       ELSE /\ blocks' = [blocks EXCEPT ![loc[s].blockId] = NoBlock]
            /\ versions' = [versions EXCEPT ![loc[s].blockId] = <<>>]
            /\ lastEmit' = EmitToRoom(s, "block_deleted", loc[s].roomId,
                                      [blockId |-> loc[s].blockId])
    /\ Finish(s)
    /\ UNCHANGED <<now, storeVars, rooms, connected, peopleVars, commentVars, client,
                   sweepVars, events, ticks, faults>>

\* prisma.sermonBlock.delete rejects for another reason
DeleteDeleteFails(s) ==
    /\ pc[s] = "delete_delete"
    /\ faults < MaxFaults
    /\ faults' = faults + 1
    /\ lastEmit' = EmitToSocket(s, "error", loc[s].roomId, [code |-> "DELETE_ERROR"])
    /\ Finish(s)
    /\ UNCHANGED <<now, storeVars, rooms, connected, dbVars, sweepVars, events, ticks>>

\* 'comment:add' arrives; prisma.comment.create resolves and COMMENT_ADDED
\* goes to the room; prisma.sermon.findUnique is issued
CommentStart(s, r) ==
    /\ CanStart(s)
    /\ events' = events + 1
    /\ comments' = Append(comments, [createdById |-> UserOf(s), sermonId |-> r])
    /\ lastEmit' = EmitToRoom(s, "comment_added", r, [comment |-> Len(comments) + 1])
    /\ Goto(s, "comment_find", [kind |-> "comment", roomId |-> r,
                                commentId |-> Len(comments) + 1])
    /\ UNCHANGED <<now, storeVars, rooms, connected, blocks, versions, peopleVars,
                   notifications, client, sweepVars, ticks, faults>>

\* 'comment:add' arrives and prisma.comment.create rejects
CommentCreateFails(s, r) ==
    /\ CanStart(s)
    /\ faults < MaxFaults
    /\ events' = events + 1
    /\ faults' = faults + 1
    /\ lastEmit' = EmitToSocket(s, "error", r, [code |-> "COMMENT_ERROR"])
    /\ UNCHANGED <<now, storeVars, rooms, connected, dbVars, pc, loc, sweepVars, ticks>>

\* the rows of sermon.collaborators, in the order the query returns them
UserOrder == <<"u1", "u2">>
CollaboratorUsers(r) ==
    SelectSeq(UserOrder, LAMBDA u : u \in DOMAIN collaborators[r])

\* [...collaborators.map(c => c.user), createdBy].filter(id !== auth.userId)
usersToNotify(r, author) ==
    SelectSeq(CollaboratorUsers(r) \o <<SermonCreatedBy(r)>>, LAMBDA u : u # author)

\* prisma.sermon.findUnique resolves: the users to notify are listed and the
\* first prisma.notification.create is issued
CommentFind(s) ==
    /\ pc[s] = "comment_find"
    /\ LET users == usersToNotify(loc[s].roomId, UserOf(s))
       IN  IF users = <<>>
           THEN Finish(s)
           ELSE Goto(s, "comment_notify",
                     [kind |-> "comment", roomId |-> loc[s].roomId,
                      commentId |-> loc[s].commentId, users |-> users])
    /\ lastEmit' = NoEmit
    /\ UNCHANGED <<now, storeVars, rooms, connected, dbVars, sweepVars, events, ticks, faults>>

\* prisma.notification.create resolves for the next user of the loop
CommentNotify(s) ==
    /\ pc[s] = "comment_notify"
    /\ notifications' = Append(notifications,
                               [userId |-> Head(loc[s].users),
                                entityId |-> loc[s].commentId])
    /\ IF Tail(loc[s].users) = <<>>
       THEN Finish(s)
       ELSE Goto(s, "comment_notify", [loc[s] EXCEPT !.users = Tail(@)])
    /\ lastEmit' = NoEmit
    /\ UNCHANGED <<now, storeVars, rooms, connected, blocks, versions, peopleVars,
                   comments, client, sweepVars, events, ticks, faults>>

\* sermon.findUnique or a notification.create rejects: COMMENT_ERROR to the
\* sender, the loop ends
CommentFails(s) ==
    /\ pc[s] \in {"comment_find", "comment_notify"}
    /\ faults < MaxFaults
    /\ faults' = faults + 1
    /\ lastEmit' = EmitToSocket(s, "error", loc[s].roomId, [code |-> "COMMENT_ERROR"])
    /\ Finish(s)
    /\ UNCHANGED <<now, storeVars, rooms, connected, dbVars, sweepVars, events, ticks>>

\* u1 (on s1) and u2 (on s2) have joined sermon:d1; s3 is connected
InitContent ==
    /\ now = 0
    /\ sessions = [r \in Rooms |->
                     IF r = "sermon:d1"
                     THEN JoinSession(JoinSession(NoSession, r, "u1"), r, "u2")
                     ELSE NoSession]
    /\ userSessions = [u \in Users |-> {"sermon:d1"}]
    /\ rooms = [r \in Rooms |-> IF r = "sermon:d1" THEN {"s1", "s2"} ELSE {}]
    /\ connected = [s \in Sockets |-> TRUE]
    /\ blocks = [b \in Blocks |-> <<"x">>]
    /\ versions = [b \in Blocks |-> <<>>]
    /\ authRole \in [Sockets -> UserRoles]
    /\ collaborators \in [Rooms -> CollaboratorLists]
    /\ comments = <<>>
    /\ notifications = <<>>
    /\ client = IdleClient
    /\ pc = [s \in Sockets |-> "idle"]
    /\ loc = [s \in Sockets |-> Idle]
    /\ spc = "idle"
    /\ sloc = Idle
    /\ lastEmit = NoEmit
    /\ events = 0
    /\ ticks = 0
    /\ faults = 0

NextContent ==
    \/ \E s \in Sockets, r \in Rooms, b \in Blocks :
          events < MaxContentEvents /\ DeleteStart(s, r, b)
    \/ \E s \in Sockets, r \in Rooms, b \in Blocks :
          events < MaxContentEvents /\ DeleteFindFails(s, r, b)
    \/ \E s \in Sockets : DeleteDelete(s)
    \/ \E s \in Sockets : DeleteDeleteFails(s)
    \/ \E s \in Sockets, r \in Rooms :
          events < MaxContentEvents /\ CommentStart(s, r)
    \/ \E s \in Sockets, r \in Rooms :
          events < MaxContentEvents /\ CommentCreateFails(s, r)
    \/ \E s \in Sockets : CommentFind(s)
    \/ \E s \in Sockets : CommentNotify(s)
    \/ \E s \in Sockets : CommentFails(s)

SpecContent == InitContent /\ [][NextContent]_vars

\* ------------------------------------------------------ client: joinSession
\* SpecClient: the joinSession calls of one connected client
\* (apps/web/src/components/providers/socket-provider.tsx).  A call registers
\* a one-time 'error' handler and a one-time 'session' handler, emits 'join'
\* and starts a 10 s timer; the promise it returns settles once.  The server
\* answers the joins of a connection in the order they arrive, each with a
\* 'session' snapshot of the room joined or with an 'error' event, after any
\* delay or not at all.  A timer fires when it is due: the clock does not
\* pass a pending timer.
serverVars == <<sessions, userSessions, rooms, connected, blocks, versions,
                peopleVars, commentVars, pc, loc, sweepVars, lastEmit, events, faults>>

\* settle the promise of a call: only the first resolve or reject counts
Settle(call, state, snapshot, cause) ==
    IF call.state = "pending"
    THEN [call EXCEPT !.state = state, !.snapshot = snapshot, !.cause = cause]
    ELSE call

\* joinSession(entityType, entityId): socket.once('error'), emit 'join',
\* socket.once('session'), setTimeout(..., 10000)
joinSession(r) ==
    /\ connected["s1"]
    /\ Len(client.calls) < MaxCalls
    /\ client' = [client EXCEPT
                    !.calls = Append(@, [room |-> r, state |-> "pending",
                                         issuedAt |-> now, errorHandler |-> TRUE,
                                         sessionHandler |-> TRUE, timer |-> TRUE,
                                         snapshot |-> "none", cause |-> "none"]),
                    !.requests = Append(@, r)]
    /\ UNCHANGED <<now, ticks, serverVars>>

\* the join handler of the server ends with socket.emit('session', ...)
ServerSession ==
    /\ client.requests # <<>>
    /\ client' = [client EXCEPT
                    !.requests = Tail(@),
                    !.inbox = Append(@, [event |-> "session",
                                         sessionId |-> Head(client.requests)])]
    /\ UNCHANGED <<now, ticks, serverVars>>

\* the join handler of the server ends with socket.emit('error', ...)
ServerError ==
    /\ client.requests # <<>>
    /\ client' = [client EXCEPT
                    !.requests = Tail(@),
                    !.inbox = Append(@, [event |-> "error",
                                         sessionId |-> Head(client.requests)])]
    /\ UNCHANGED <<now, ticks, serverVars>>

\* a 'session' event arrives: every one-time session handler still registered
\* runs once: socket.off('error', errorHandler), setActiveSession, resolve()
ReceiveSession ==
    /\ client.inbox # <<>>
    /\ Head(client.inbox).event = "session"
    /\ client' = [client EXCEPT
                    !.inbox = Tail(@),
                    !.activeSession = Head(client.inbox).sessionId,
                    !.calls = [i \in DOMAIN client.calls |->
                                 IF client.calls[i].sessionHandler
                                 THEN Settle([client.calls[i] EXCEPT
                                                !.sessionHandler = FALSE,
                                                !.errorHandler = FALSE],
                                             "resolved",
                                             Head(client.inbox).sessionId, "none")
                                 ELSE client.calls[i]]]
    /\ UNCHANGED <<now, ticks, serverVars>>

\* an 'error' event arrives: every one-time errorHandler still registered
\* runs once: reject(err)
ReceiveError ==
    /\ client.inbox # <<>>
    /\ Head(client.inbox).event = "error"
    /\ client' = [client EXCEPT
                    !.inbox = Tail(@),
                    !.calls = [i \in DOMAIN client.calls |->
                                 IF client.calls[i].errorHandler
                                 THEN Settle([client.calls[i] EXCEPT
                                                !.errorHandler = FALSE],
                                             "rejected", "none", "error")
                                 ELSE client.calls[i]]]
    /\ UNCHANGED <<now, ticks, serverVars>>

\* the timer of call i fires: socket.off('error', errorHandler),
\* reject(new Error('Timeout joining session'))
TimerFires(i) ==
    /\ i \in DOMAIN client.calls
    /\ client.calls[i].timer
    /\ now = client.calls[i].issuedAt + JOIN_TIMEOUT
    /\ client' = [client EXCEPT
                    !.calls[i] = Settle([@ EXCEPT !.timer = FALSE,
                                                   !.errorHandler = FALSE],
                                        "rejected", "none", "timeout")]
    /\ UNCHANGED <<now, ticks, serverVars>>

\* the clock advances, never past a timer that is due
ClientTick ==
    /\ ticks < MaxClientTicks
    /\ \A i \in DOMAIN client.calls :
          client.calls[i].timer
          => now + ClientTickMs <= client.calls[i].issuedAt + JOIN_TIMEOUT
    /\ now' = now + ClientTickMs
    /\ ticks' = ticks + 1
    /\ UNCHANGED <<client, serverVars>>

NextClient ==
    \/ \E r \in Rooms : joinSession(r)
    \/ ServerSession
    \/ ServerError
    \/ ReceiveSession
    \/ ReceiveError
    \/ \E i \in 1..MaxCalls : TimerFires(i)
    \/ ClientTick

SpecClient == Init /\ [][NextClient]_vars

\* --------------------------------------------- client: disconnect, reconnect
\* SpecRecovery: the client of connection s1 across disconnects.  connected
\* is the state of its socket; the server's answers are as in SpecClient.
\* Events on the wire when the socket goes down are lost.
clientServerVars == <<sessions, userSessions, rooms, blocks, versions, peopleVars,
                      commentVars, pc, loc, sweepVars, lastEmit, faults>>

\* the socket drops (reason other than 'io client disconnect'); the
\* 'disconnect' handler runs: setStatus('disconnected'), setActiveSession(null)
SocketDrops ==
    /\ client.socket
    /\ connected["s1"]
    /\ events < MaxDrops
    /\ events' = events + 1
    /\ connected' = [connected EXCEPT !["s1"] = FALSE]
    /\ client' = [client EXCEPT !.activeSession = "none",
                                !.sessionAtDrop = client.activeSession,
                                !.requests = <<>>,
                                !.inbox = <<>>]
    /\ UNCHANGED <<now, ticks, clientServerVars>>

\* the socket reconnects; the 'reconnect' handler registered by connect()
\* runs: setStatus('connected'), and emit 'join' if (activeSession), the
\* activeSession of the render in which connect() ran
SocketReconnects ==
    /\ client.socket
    /\ ~connected["s1"]
    /\ connected' = [connected EXCEPT !["s1"] = TRUE]
    /\ client' = [client EXCEPT
                    !.requests = IF client.captured # "none"
                                 THEN Append(@, client.captured)
                                 ELSE @]
    /\ UNCHANGED <<now, ticks, events, clientServerVars>>

\* disconnect(): leave the active session, socket.disconnect(),
\* setSocket(null), setActiveSession(null)
disconnect ==
    /\ client.socket
    /\ events < MaxDrops
    /\ events' = events + 1
    /\ connected' = [connected EXCEPT !["s1"] = FALSE]
    /\ client' = [client EXCEPT !.socket = FALSE,
                                !.activeSession = "none",
                                !.requests = <<>>,
                                !.inbox = <<>>]
    /\ UNCHANGED <<now, ticks, clientServerVars>>

\* connect(): runs only while socket is null; creates the socket and
\* registers its handlers, which close over the activeSession of this render
connect ==
    /\ ~client.socket
    /\ connected' = [connected EXCEPT !["s1"] = TRUE]
    /\ client' = [client EXCEPT !.socket = TRUE,
                                !.captured = client.activeSession]
    /\ UNCHANGED <<now, ticks, events, clientServerVars>>

NextRecovery ==
    \/ \E r \in Rooms : client.socket /\ joinSession(r)
    \/ ServerSession
    \/ ServerError
    \/ ReceiveSession
    \/ ReceiveError
    \/ SocketDrops
    \/ SocketReconnects
    \/ disconnect
    \/ connect

SpecRecovery == Init /\ [][NextRecovery]_vars

\* ------------------------------------------- events for rooms never joined
\* SpecOpen: block:edit, block:create and block:delete as the handlers take
\* them, from any authenticated connection and naming any room, joined or
\* not.  s1 (u1) and s2 (u2) have joined sermon:d1; s3 has joined nothing and
\* sermon:d2 has no session.  The clock stands still: a lock taken in a
\* behaviour does not expire in it.
InitOpen ==
    /\ now = 0
    /\ sessions = [r \in Rooms |->
                     IF r = "sermon:d1"
                     THEN JoinSession(JoinSession(NoSession, r, "u1"), r, "u2")
                     ELSE NoSession]
    /\ userSessions = [u \in Users |-> {"sermon:d1"}]
    /\ rooms = [r \in Rooms |-> IF r = "sermon:d1" THEN {"s1", "s2"} ELSE {}]
    /\ connected = [s \in Sockets |-> TRUE]
    /\ blocks = [b \in Blocks |-> <<"x">>]
    /\ versions = [b \in Blocks |-> <<>>]
    /\ InitPeople
    /\ pc = [s \in Sockets |-> "idle"]
    /\ loc = [s \in Sockets |-> Idle]
    /\ spc = "idle"
    /\ sloc = Idle
    /\ lastEmit = NoEmit
    /\ events = 0
    /\ ticks = 0
    /\ faults = 0

\* 'block:edit' arrives for any room; redis.get(sessionKey) resolves; the
\* lock check, made only when the room has a session record
EditArrives(s, r, b, operation) ==
    /\ CanStart(s)
    /\ events' = events + 1
    /\ IF sessions[r] = NoSession
       THEN /\ Goto(s, "edit_find",
                    [kind |-> "edit", roomId |-> r, blockId |-> b, operation |-> operation,
                     acquired |-> FALSE, lockFree |-> TRUE])
            /\ lastEmit' = NoEmit
       ELSE IF LockedByOther(sessions[r], b, UserOf(s))
       THEN /\ lastEmit' = EmitToSocket(s, "error", r,
                              [code |-> "BLOCK_LOCKED", blockId |-> b,
                               lockedBy |-> sessions[r].locks[b].userId])
            /\ UNCHANGED <<pc, loc>>
       ELSE /\ Goto(s, "edit_set",
                    [kind |-> "edit", roomId |-> r, blockId |-> b, operation |-> operation,
                     acquired |-> TRUE, lockFree |-> ~ValidLock(sessions[r], b),
                     session |-> EditSession(sessions[r], b, UserOf(s), operation)])
            /\ lastEmit' = NoEmit
    /\ UNCHANGED <<now, storeVars, rooms, connected, dbVars, sweepVars, ticks, faults>>

\* ids the document store gives to created blocks, in order
CreatedIds == <<"n1", "n2", "n3">>

CreatedBlocks == (DOMAIN blocks) \ Blocks

\* 'block:create' arrives; prisma.sermonBlock.create resolves and
\* BLOCK_CREATED goes to the room
CreateStart(s, r) ==
    /\ CanStart(s)
    /\ Cardinality(CreatedBlocks) < Len(CreatedIds)
    /\ events' = events + 1
    /\ LET id == CreatedIds[Cardinality(CreatedBlocks) + 1]
       IN  /\ blocks' = (id :> <<"x">>) @@ blocks
           /\ lastEmit' = EmitToRoom(s, "block_created", r,
                                     [blockId |-> id, sermonId |-> r, createdById |-> UserOf(s)])
    /\ UNCHANGED <<now, storeVars, rooms, connected, versions, peopleVars, commentVars, client,
                   pc, loc, sweepVars, ticks, faults>>

\* 'block:create' arrives and prisma.sermonBlock.create rejects: CREATE_ERROR
CreateFails(s, r) ==
    /\ CanStart(s)
    /\ faults < MaxFaults
    /\ events' = events + 1
    /\ faults' = faults + 1
    /\ lastEmit' = EmitToSocket(s, "error", r, [code |-> "CREATE_ERROR"])
    /\ UNCHANGED <<now, storeVars, rooms, connected, dbVars, pc, loc, sweepVars, ticks>>

NextOpen ==
    \/ \E s \in Sockets, r \in Rooms, b \in Blocks, o \in Operations :
          events < MaxOpenEvents /\ EditArrives(s, r, b, o)
    \/ \E s \in Sockets : EditSet(s)
    \/ \E s \in Sockets : EditFind(s)
    \/ \E s \in Sockets : EditUpdate(s)
    \/ \E s \in Sockets : EditVersion(s)
    \/ \E s \in Sockets : EditReleaseGet(s)
    \/ \E s \in Sockets : EditReleaseSet(s)
    \/ \E s \in Sockets, r \in Rooms : events < MaxOpenEvents /\ CreateStart(s, r)
    \/ \E s \in Sockets, r \in Rooms : events < MaxOpenEvents /\ CreateFails(s, r)
    \/ \E s \in Sockets, r \in Rooms, b \in Blocks :
          events < MaxOpenEvents /\ DeleteStart(s, r, b)
    \/ \E s \in Sockets : DeleteDelete(s)

SpecOpen == InitOpen /\ [][NextOpen]_vars

\* --------------------------------------------- block:edit, every call failing
\* SpecOutcome: block:edit of the connections that have joined sermon:d1,
\* with every awaited call of the handler able to reject, the calls of the
\* lock release in the inner catch included.  A rejection there is not
\* caught by the inner catch: it reaches the outer catch, which sends
\* EDIT_ERROR.
EditReleaseGetFails(s) ==
    /\ pc[s] = "edit_release_get"
    /\ faults < MaxEditFaults
    /\ faults' = faults + 1
    /\ lastEmit' = EmitToSocket(s, "error", loc[s].roomId, [code |-> "EDIT_ERROR"])
    /\ Finish(s)
    /\ UNCHANGED <<now, storeVars, rooms, connected, dbVars, sweepVars, events, ticks>>

\* the redis.set of the release rejects
EditReleaseSetFails(s) ==
    /\ pc[s] = "edit_release_set"
    /\ faults < MaxEditFaults
    /\ faults' = faults + 1
    /\ lastEmit' = EmitToSocket(s, "error", loc[s].roomId, [code |-> "EDIT_ERROR"])
    /\ Finish(s)
    /\ UNCHANGED <<now, storeVars, rooms, connected, dbVars, sweepVars, events, ticks>>

NextOutcome ==
    \/ \E s \in Sockets, r \in Rooms, b \in Blocks, o \in Operations :
          events < MaxOutcomeEvents /\ EditStart(s, r, b, o)
    \/ \E s \in Sockets, r \in Rooms, b \in Blocks, o \in Operations :
          events < MaxOutcomeEvents /\ EditGetFails(s, r, b, o)
    \/ \E s \in Sockets : EditSet(s)
    \/ \E s \in Sockets : EditSetFails(s)
    \/ \E s \in Sockets : EditFind(s)
    \/ \E s \in Sockets : EditFindFails(s)
    \/ \E s \in Sockets : EditUpdate(s)
    \/ \E s \in Sockets : EditUpdateFails(s)
    \/ \E s \in Sockets : EditVersion(s)
    \/ \E s \in Sockets : EditVersionFails(s)
    \/ \E s \in Sockets : EditReleaseGet(s)
    \/ \E s \in Sockets : EditReleaseGetFails(s)
    \/ \E s \in Sockets : EditReleaseSet(s)
    \/ \E s \in Sockets : EditReleaseSetFails(s)

SpecOutcome == InitOpen /\ [][NextOutcome]_vars

\* ================================================================== claims

\* the sockets a step delivered event ev to
Delivered(e, ev) == IF e.event = ev THEN e.to ELSE {}

C2_AtMostOneAcquires ==
    \A s1, s2 \in Sockets :
        ( /\ UserOf(s1) # UserOf(s2)
          /\ pc[s1] = "edit_version"
          /\ pc[s2] = "edit_version"
          /\ loc[s1].roomId = loc[s2].roomId
          /\ loc[s1].blockId = loc[s2].blockId
          /\ loc[s1].lockFree
          /\ loc[s2].lockFree
          /\ sessions[loc[s1].roomId] # NoSession
          /\ {UserOf(s1), UserOf(s2)} \subseteq DOMAIN sessions[loc[s1].roomId].activeUsers )
        => ~(loc[s1].acquired /\ loc[s2].acquired)

\* C3: lock expiry.  A lock that block:edit installs at time T expires at
\* T + 30000.  An edit of another principal that arrives when the lock in the
\* session record has expiry <= now is accepted: the handler goes on with the
\* editor as holder until now + 30000, and its write of the session makes the
\* editor the holder in the store.
C3_LockExpiry ==
    [][\A s \in Sockets :
          /\ (pc[s] = "idle" /\ pc'[s] = "edit_set")
               => loc'[s].session.locks[loc'[s].blockId]
                    = [userId |-> UserOf(s), expires |-> now + 30000]
          /\ \A r \in Rooms, b \in Blocks :
               ( /\ sessions[r] # NoSession
                 /\ b \in DOMAIN sessions[r].locks
                 /\ sessions[r].locks[b].userId # UserOf(s)
                 /\ sessions[r].locks[b].expires <= now
                 /\ \E o \in Operations : EditStart(s, r, b, o) )
               => /\ pc'[s] = "edit_set"
                  /\ loc'[s].session.locks[b] = [userId |-> UserOf(s), expires |-> now + 30000]
          /\ EditSet(s)
               => /\ sessions'[loc[s].roomId].locks[loc[s].blockId].userId = UserOf(s)
                  /\ sessions'[loc[s].roomId].locks[loc[s].blockId].expires <= now + 30000
                  /\ pc'[s] = "edit_find"]_vars

\* an editor is about to write its lock over the expired lock of another
\* principal, at the very time that lock expired
C3_Witness ==
    \E s \in Sockets :
        /\ pc[s] = "edit_set"
        /\ sessions[loc[s].roomId] # NoSession
        /\ loc[s].blockId \in DOMAIN sessions[loc[s].roomId].locks
        /\ sessions[loc[s].roomId].locks[loc[s].blockId].userId # UserOf(s)
        /\ sessions[loc[s].roomId].locks[loc[s].blockId].expires = now
        /\ loc[s].session.locks[loc[s].blockId] = [userId |-> UserOf(s), expires |-> now + 30000]

\* C4: session emptiness.  Once every connection has left the room of a
\* channel, by leave or by disconnect, and no handler or sweep is in flight
\* any more, the store holds no session record for that channel.
C4_SessionEmptiness ==
    \A r \in Rooms :
        ( /\ rooms[r] = {}
          /\ \A s \in Sockets : pc[s] = "idle"
          /\ spc = "idle" )
        => sessions[r] = NoSession

\* C5: no session record in the store has an empty participant map.
C5_NoEmptySession ==
    \A r \in Rooms :
        sessions[r] # NoSession => DOMAIN sessions[r].activeUsers # {}

\* the leave of a session's last participant has just deleted the session
\* record, which had been written with that participant in it
C5_Witness ==
    \E s \in Sockets :
        /\ pc[s] = "leave_srem"
        /\ sessions[loc[s].roomId] = NoSession
        /\ loc[s].roomId \in userSessions[UserOf(s)]
        /\ \A s2 \in Sockets \ {s} : pc[s2] = "idle"

\* C6: the session snapshot sent to a joiner always lists the joiner.
C6_SnapshotListsJoiner ==
    lastEmit.event = "session" => UserOf(lastEmit.from) \in lastEmit.data.activeUsers

\* C7: broadcast exclusion.  A cursor_moved or user_joined event is delivered
\* to every socket of the room except the one whose event produced it.
C7_BroadcastExclusion ==
    lastEmit.event \in {"cursor_moved", "user_joined"}
    => /\ lastEmit.from \notin lastEmit.to
       /\ lastEmit.to = rooms[lastEmit.sessionId] \ {lastEmit.from}

\* a cursor_moved event of a participant whose socket is in the room has been
\* delivered to another socket of the room
C7_Witness ==
    /\ lastEmit.event = "cursor_moved"
    /\ lastEmit.from \in rooms[lastEmit.sessionId]
    /\ sessions[lastEmit.sessionId] # NoSession
    /\ lastEmit.userId \in DOMAIN sessions[lastEmit.sessionId].activeUsers
    /\ lastEmit.to # {}

\* C8: disconnect is equivalent to leave.  Every channel the disconnect handler
\* of a connection writes is one that connection had joined, the record it
\* writes is the one leave writes, and user_left reaches the sockets still in
\* the room, as it does after a leave.
C8_DisconnectAsLeave ==
    [][\A s \in Sockets :
          DisconnectSet(s)
          => /\ loc[s].roomId \in loc[s].joined
             /\ sessions'[loc[s].roomId] = LeaveWrite(loc[s].session)
             /\ Delivered(lastEmit', "user_left") = rooms[loc[s].roomId]]_vars

\* C9: when a leave of P completes, and no other connection of P is in the
\* room, P is not in the participant map of the session record, P holds no
\* lock in it, and user_left has been sent to the sockets still in the room.
C9_LeavePostcondition ==
    [][\A s \in Sockets :
          ( /\ pc[s] \in {"leave_get", "leave_srem"}
            /\ pc'[s] = "idle"
            /\ \A s2 \in Sockets \ {s} :
                  UserOf(s2) = UserOf(s) => s2 \notin rooms[loc[s].roomId] )
          => /\ sessions'[loc[s].roomId] # NoSession
                => /\ UserOf(s) \notin DOMAIN sessions'[loc[s].roomId].activeUsers
                   /\ \A b \in DOMAIN sessions'[loc[s].roomId].locks :
                         sessions'[loc[s].roomId].locks[b].userId # UserOf(s)
             /\ Delivered(lastEmit', "user_left") = rooms[loc[s].roomId]]_vars

C11_RejectedEditFrame ==
    [][\A s \in Sockets, r \in Rooms, b \in Blocks :
          ( /\ \E o \in Operations : EditStart(s, r, b, o)
            /\ lastEmit'.event = "error"
            /\ lastEmit'.data.code = "BLOCK_LOCKED" )
          => /\ blocks'[b] = blocks[b]
             /\ versions'[b] = versions[b]
             /\ sessions'[r].locks[b] = sessions[r].locks[b]
             /\ sessions'[r].operations = sessions[r].operations
             /\ UNCHANGED <<sessions, userSessions, blocks, versions, rooms>>
             /\ pc' = pc
             /\ lastEmit'.to = {s}]_vars

\* an edit has just been refused with BLOCK_LOCKED in a room that holds
\* another socket, after the holder's edit was logged, stored and versioned
C11_Witness ==
    /\ lastEmit.event = "error"
    /\ lastEmit.data.code = "BLOCK_LOCKED"
    /\ rooms[lastEmit.sessionId] \ {lastEmit.from} # {}
    /\ Len(sessions[lastEmit.sessionId].operations) = 1
    /\ Len(versions[lastEmit.data.blockId]) = 1
    /\ \A s \in Sockets : pc[s] = "idle"

\* the reference result of an operation that carries its fields
Clamp(p, lo, hi) == Min(Max(p, lo), hi)

Splice(content, position, text) ==
    LET p == Clamp(position, 0, Len(content))
    IN  SubSeq(content, 1, p) \o text \o SubSeq(content, p + 1, Len(content))

\* content without the characters at offsets position .. position+length-1
Remove(content, position, length) ==
    LET F[i \in 0..Len(content)] ==
            IF i = 0 THEN << >>
            ELSE IF position < i /\ i <= position + length
                 THEN F[i - 1]
                 ELSE Append(F[i - 1], content[i])
    IN  F[Len(content)]

CarriesItsFields(operation) ==
    CASE operation.type = "insert"  -> {"position", "text"} \subseteq operation.has
      [] operation.type = "delete"  -> {"position", "length"} \subseteq operation.has
      [] operation.type = "replace" -> "text" \in operation.has

Reference(content, operation) ==
    CASE operation.type = "insert"  -> Splice(content, operation.position, operation.text)
      [] operation.type = "delete"  -> Remove(content, operation.position, operation.length)
      [] operation.type = "replace" -> operation.text

\* C12: the content an accepted block:edit computes from the block it read
\* is the reference result of its operation (insert: the text spliced in at
\* the position clamped into [0, length]; delete: `length` characters removed
\* from the position on; replace: the text), and that content is what it
\* writes to the block, appends to the versions and broadcasts.
C12_AppliedContent ==
    [][\A s \in Sockets :
          /\ ( /\ pc[s] = "edit_find"
               /\ pc'[s] = "edit_update"
               /\ CarriesItsFields(loc[s].operation) )
             => loc'[s].newContent = Reference(blocks[loc[s].blockId], loc[s].operation)
          /\ EditUpdate(s) => blocks'[loc[s].blockId] = loc[s].newContent
          /\ EditVersion(s)
             => /\ lastEmit'.event = "block_updated"
                /\ lastEmit'.data.content = loc[s].newContent
                /\ versions'[loc[s].blockId] = Append(versions[loc[s].blockId], loc[s].newContent)]_vars

\* two edits with the same operation have been applied to block b, one after
\* the other, by the handlers of one connection
AppliedTwice(r, b) ==
    /\ \A s \in Sockets : pc[s] = "idle"
    /\ sessions[r] # NoSession
    /\ Len(sessions[r].operations) = 2
    /\ Len(versions[b]) = 2
    /\ sessions[r].operations[1].blockId = b
    /\ sessions[r].operations[2] = sessions[r].operations[1]

\* C13 (as stated): insert is not idempotent.  For every starting content and
\* every insert operation, the content after the same insert was applied
\* twice in succession differs from the content after it was applied once.
C13_InsertNotIdempotent_AsStated ==
    \A r \in Rooms, b \in Blocks :
        ( /\ AppliedTwice(r, b)
          /\ sessions[r].operations[1].operation.type = "insert" )
        => versions[b][2] # versions[b][1]

\* C13 (amended): for every starting content and every insert operation that
\* carries a position and a non-empty text, the content after the same insert
\* was applied twice in succession differs from the content after it was
\* applied once (it is longer by the length of the text).
C13_InsertNotIdempotent ==
    \A r \in Rooms, b \in Blocks :
        ( /\ AppliedTwice(r, b)
          /\ sessions[r].operations[1].operation.type = "insert"
          /\ {"position", "text"} \subseteq sessions[r].operations[1].operation.has
          /\ sessions[r].operations[1].operation.text # << >> )
        => /\ versions[b][2] # versions[b][1]
           /\ Len(versions[b][2])
                = Len(versions[b][1]) + Len(sessions[r].operations[1].operation.text)
           /\ blocks[b] = versions[b][2]

\* the same insert of a non-empty text in the middle of a non-empty content
\* has been applied twice
C13_Witness ==
    \E r \in Rooms, b \in Blocks :
        /\ AppliedTwice(r, b)
        /\ sessions[r].operations[1].operation.type = "insert"
        /\ sessions[r].operations[1].operation.has = {"position", "text"}
        /\ sessions[r].operations[1].operation.position = 1
        /\ sessions[r].operations[1].operation.text = <<"b", "a">>
        /\ versions[b] = << <<"a", "b", "a", "b">>, <<"a", "b", "a", "b", "a", "b">> >>

\* C14: block_updated events reach the room in the order in which the
\* contents they carry were written to the document store; so when a
\* block_updated event has just been emitted and no edit is in flight, the
\* content it carries is the stored content of the block.
C14_BroadcastOrder ==
    ( /\ lastEmit.event = "block_updated"
      /\ \A s \in Sockets : pc[s] \notin {"edit_set", "edit_find", "edit_update", "edit_version"} )
    => lastEmit.data.content = blocks[lastEmit.data.blockId]

\* C15: for each block, at most one block:edit handler at a time is between
\* its read of the block's content and its write of the new content, the
\* handlers of the lock holder's own connections included.
C15_OneApplierAtATime ==
    \A s1, s2 \in Sockets :
        ( /\ s1 # s2
          /\ pc[s1] = "edit_update"
          /\ pc[s2] = "edit_update" )
        => loc[s1].blockId # loc[s2].blockId

\* C16: without the session store, presence and locks work within the
\* process as they do with the store.  The snapshot sent to a joiner lists
\* every participant whose socket is in the room (a second joiner's snapshot
\* lists both), and a block:edit that arrives right after another
\* participant's edit of the same block was applied, less than 30 s before,
\* is refused with BLOCK_LOCKED.
C16_FallbackPresenceAndLocks ==
    [][\A s \in Sockets :
          /\ ( faults = 0 /\ JoinUserNoRedis(s) )
             => \A s2 \in rooms[loc[s].roomId] :
                   pc[s2] # "join_user" => UserOf(s2) \in lastEmit'.data.activeUsers
          /\ \A r \in Rooms, b \in Blocks :
                ( /\ lastEmit.event = "block_updated"
                  /\ lastEmit.sessionId = r
                  /\ lastEmit.data.blockId = b
                  /\ lastEmit.userId # UserOf(s)
                  /\ \E o \in Operations : EditStartNoRedis(s, r, b, o) )
                => /\ lastEmit'.event = "error"
                   /\ lastEmit'.data.code = "BLOCK_LOCKED"]_vars

\* C17: for each block id there is at most one non-expired lock in the
\* store, counted across all session records: a block is never locked by
\* one principal in one channel's session record and by a different
\* principal in another's at the same time.
C17_OneLockPerBlock ==
    \A b \in Blocks, r1, r2 \in Rooms :
        ( /\ r1 # r2
          /\ sessions[r1] # NoSession
          /\ sessions[r2] # NoSession
          /\ ValidLock(sessions[r1], b)
          /\ ValidLock(sessions[r2], b) )
        => sessions[r1].locks[b].userId = sessions[r2].locks[b].userId

\* C18: every lock in a session record is held by a principal that is
\* listed in the participant map of that record.
C18_LockHolderIsParticipant ==
    \A r \in Rooms :
        sessions[r] # NoSession
        => \A b \in DOMAIN sessions[r].locks :
              sessions[r].locks[b].userId \in DOMAIN sessions[r].activeUsers

\* C19: a non-expired lock on a block, held by a listed participant P1, is
\* neither removed nor replaced by a write that the join, leave, cursor,
\* disconnect or failed edit of another principal P2 makes to the session
\* record, under any interleaving.
C19_LockSurvivesOthersEvents ==
    [][\A s \in Sockets, r \in Rooms, b \in Blocks :
          ( /\ \/ JoinSet(s)
               \/ LeaveSet(s)
               \/ CursorSet(s)
               \/ DisconnectSet(s)
               \/ EditReleaseSet(s)
            /\ sessions[r] # NoSession
            /\ ValidLock(sessions[r], b)
            /\ sessions[r].locks[b].userId # UserOf(s)
            /\ sessions[r].locks[b].userId \in DOMAIN sessions[r].activeUsers )
          => /\ sessions'[r] # NoSession
             /\ b \in DOMAIN sessions'[r].locks
             /\ sessions'[r].locks[b] = sessions[r].locks[b]]_vars

\* the locks of a session record that the lock check of block:edit honours
HonouredLocks(session) ==
    [b \in {x \in DOMAIN session.locks : ValidLock(session, x)} |-> session.locks[b]]

\* the session keys a step of the sweep has dealt with
SweptKeys == sloc.sessionKeys \ (IF "sessionKeys" \in DOMAIN sloc' THEN sloc'.sessionKeys ELSE {})

\* C20: a cleanup sweep removes from a session record exactly the locks that
\* the lock check of block:edit no longer honours and keeps those it honours,
\* writes the record back only when it removed a lock, and its write leaves
\* the participants of the stored record as they are, whatever joins, leaves
\* and edits interleave with it.
C20_SweepFrame ==
    [][/\ ( SweepGet /\ spc' = "sweep_set" )
          => /\ sloc'.session.locks = HonouredLocks(sessions[sloc'.roomId])
             /\ sloc'.session.locks # sessions[sloc'.roomId].locks
             /\ sloc'.session.activeUsers = sessions[sloc'.roomId].activeUsers
       /\ ( SweepGet /\ spc' # "sweep_set" )
          => /\ UNCHANGED sessions
             /\ \A r \in SweptKeys :
                   sessions[r] # NoSession => HonouredLocks(sessions[r]) = sessions[r].locks
       /\ SweepSet
          => /\ sessions[sloc.roomId] # NoSession
             /\ sessions'[sloc.roomId].activeUsers = sessions[sloc.roomId].activeUsers
             /\ \A b \in DOMAIN sessions'[sloc.roomId].locks :
                   /\ b \in DOMAIN sessions[sloc.roomId].locks
                   /\ sessions'[sloc.roomId].locks[b] = sessions[sloc.roomId].locks[b]]_vars

\* C21: a lock's expiry is extended only by an accepted block:edit of its
\* holder on that block.  Whenever the expiry of a lock in the session
\* record grows, the step is the write of an edit of the holder on that
\* block; the writes of the holder's cursor moves leave it as it is.
C21_OnlyEditsExtend ==
    [][\A r \in Rooms :
          ( sessions[r] # NoSession /\ sessions'[r] # NoSession )
          => \A b \in DOMAIN sessions[r].locks \cap DOMAIN sessions'[r].locks :
                ( /\ sessions'[r].locks[b].userId = sessions[r].locks[b].userId
                  /\ sessions'[r].locks[b].expires > sessions[r].locks[b].expires )
                => \E s \in Sockets :
                      /\ EditSet(s)
                      /\ UserOf(s) = sessions[r].locks[b].userId
                      /\ loc[s].roomId = r
                      /\ loc[s].blockId = b]_vars

\* C22: a join of a principal who is neither the creator of the sermon nor
\* one of its collaborators is answered with PERMISSION_DENIED to that
\* connection alone and changes nothing: the connection is not put in the
\* room, the session records and the user index are as before, the handler
\* has ended, and neither user_joined nor a session snapshot is sent.
C22_DeniedJoinFrame ==
    [][\A s \in Sockets, r \in Rooms :
          ( /\ JoinStart(s, r)
            /\ SermonCreatedBy(r) # UserOf(s)
            /\ UserOf(s) \notin SermonCollaborators(r) )
          => /\ lastEmit'.event = "error"
             /\ lastEmit'.data.code = "PERMISSION_DENIED"
             /\ lastEmit'.to = {s}
             /\ s \notin rooms'[r]
             /\ pc'[s] = "idle"
             /\ UNCHANGED <<rooms, sessions, userSessions, blocks, versions>>]_vars

\* a join has just been refused with PERMISSION_DENIED on a channel that
\* has a session record and another connection in its room
C22_Witness ==
    /\ lastEmit.event = "error"
    /\ lastEmit.data.code = "PERMISSION_DENIED"
    /\ ~checkCollaborationAccess(UserOf(lastEmit.from), lastEmit.sessionId)
    /\ sessions[lastEmit.sessionId] # NoSession
    /\ rooms[lastEmit.sessionId] # {}
    /\ lastEmit.from \notin rooms[lastEmit.sessionId]
    /\ \A s \in Sockets : pc[s] = "idle"

\* C23: a connection whose token is missing or does not verify is refused
\* by the middleware, and from then on nothing comes of it: no handler ever
\* runs for it, it is in no room, no event is emitted on its behalf, and
\* while no connection has been accepted the store holds no session record
\* and nothing is emitted at all.
C23_RejectedBeforeHandlers ==
    [][/\ \A s \in Sockets :
             /\ ( Authenticate(s) /\ loc[s].token # "valid" )
                => /\ ~connected'[s]
                   /\ loc'[s].kind = "rejected"
                   /\ UNCHANGED <<sessions, userSessions, rooms, blocks, versions>>
             /\ loc[s].kind = "rejected"
                => /\ pc[s] = "idle"
                   /\ pc'[s] = "idle"
                   /\ loc'[s] = loc[s]
                   /\ ~connected'[s]
                   /\ \A r \in Rooms : s \notin rooms'[r]
                   /\ lastEmit' # NoEmit => lastEmit'.from # s
       /\ ( \A s \in Sockets : ~connected[s] /\ loc[s].kind \in {"rejected", "handshake"} )
          => /\ \A r \in Rooms : sessions'[r] = NoSession /\ rooms'[r] = {}
             /\ lastEmit' = NoEmit
             /\ events' = 0]_vars

\* one connection was refused, the two others were accepted and have
\* joined a channel and edited a block
C23_Witness ==
    /\ \E s \in Sockets : loc[s].kind = "rejected"
    /\ \E r \in Rooms : Cardinality(rooms[r]) = 2 /\ sessions[r] # NoSession
    /\ lastEmit.event = "block_updated"

\* a step in which the event of connection s fails: the join is denied, the
\* edit is refused, the user is not found, or a store call rejects
EventFails(s) ==
    \/ \E r \in Rooms : JoinStart(s, r) /\ ~checkCollaborationAccess(UserOf(s), r)
    \/ JoinUserNotFound(s)
    \/ JoinUserFails(s)
    \/ JoinStoreFails(s)
    \/ LeaveStoreFails(s)
    \/ \E r \in Rooms, p \in CursorPositions : CursorGetFails(s, r, p)
    \/ CursorSetFails(s)
    \/ \E r \in Rooms, b \in Blocks, o \in Operations :
          EditStart(s, r, b, o) /\ pc'[s] = "idle"
    \/ \E r \in Rooms, b \in Blocks, o \in Operations : EditGetFails(s, r, b, o)
    \/ EditSetFails(s)
    \/ EditFindFails(s)
    \/ EditUpdateFails(s)
    \/ EditVersionFails(s)

\* C24: every failure of an inbound event is reported to the connection it
\* came from through an error event, and an error event is delivered to no
\* other connection.
C24_ErrorsToOrigin ==
    [][/\ \A s \in Sockets :
             EventFails(s)
             => /\ lastEmit'.event = "error"
                /\ lastEmit'.from = s
       /\ lastEmit'.event = "error" => lastEmit'.to = {lastEmit'.from}]_vars

\* C25: a cursor event of a participant P changes, in the stored session
\* record, P's cursor and nothing else (the other participants, the locks and
\* the operation log stay as they were); a cursor event of a principal who is
\* not a participant leaves the stored session record unchanged.
C25_CursorFrame ==
    [][/\ \A s \in Sockets :
             CursorSet(s)
             => LET r == loc[s].roomId
                IN  /\ sessions[r] # NoSession
                    /\ UserOf(s) \in DOMAIN sessions[r].activeUsers
                    /\ sessions' = [sessions EXCEPT
                                      ![r] = CursorSession(sessions[r], UserOf(s),
                                                           loc[s].position)]
       /\ \A s \in Sockets, r \in Rooms, p \in CursorPositions :
             CursorStart(s, r, p) /\ pc'[s] = "idle"
             => sessions' = sessions]_vars

\* the caller of connection s is the creator of the sermon of block b, a
\* collaborator on it with the editor role, or an administrator
MayDelete(s, b) ==
    \/ UserOf(s) = SermonCreatedBy(SermonOf(b))
    \/ \E u \in DOMAIN collaborators[SermonOf(b)] :
          u = UserOf(s) /\ collaborators[SermonOf(b)][u] = "EDITOR"
    \/ authRole[s] = "ADMIN"

\* C26: a block is removed, and block_deleted is broadcast, only by a
\* block:delete of the creator of the block's sermon, of a collaborator on it
\* with the editor role, or of an administrator, and the removal and the
\* broadcast to the room come together; a block:delete of any other caller
\* deletes nothing, broadcasts nothing, ends the handler and sends DELETE_ERROR
\* to the caller alone.
C26_DeleteNeedsRight ==
    [][/\ \A b \in Blocks :
             (\/ (blocks[b] # NoBlock /\ blocks'[b] = NoBlock)
              \/ (lastEmit'.event = "block_deleted" /\ lastEmit'.data.blockId = b))
             => \E s \in Sockets :
                   /\ pc[s] = "delete_delete"
                   /\ loc[s].blockId = b
                   /\ MayDelete(s, b)
                   /\ blocks[b] # NoBlock
                   /\ blocks'[b] = NoBlock
                   /\ lastEmit'.event = "block_deleted"
                   /\ lastEmit'.from = s
                   /\ lastEmit'.to = rooms[loc[s].roomId]
       /\ \A s \in Sockets, r \in Rooms, b \in Blocks :
             (DeleteStart(s, r, b) /\ ~MayDelete(s, b))
             => /\ blocks' = blocks
                /\ pc'[s] = "idle"
                /\ lastEmit' = [event |-> "error", sessionId |-> r,
                                userId |-> UserOf(s), from |-> s, to |-> {s},
                                data |-> [code |-> "DELETE_ERROR"]]]_vars

\* a collaborator without the editor role, not an administrator, has just
\* been refused the deletion of an existing block
C26_Witness ==
    /\ ~MayDelete("s2", "b1")
    /\ "u2" \in DOMAIN collaborators["sermon:d1"]
    /\ blocks["b1"] # NoBlock
    /\ faults = 0
    /\ events = 1
    /\ lastEmit.event = "error"
    /\ lastEmit.from = "s2"
    /\ lastEmit.data.code = "DELETE_ERROR"

\* the notification rows for user u about comment i
NotificationsFor(i, u) ==
    {k \in 1..Len(notifications) :
        notifications[k].entityId = i /\ notifications[k].userId = u}

\* the handler of comment i is still running
CommentInFlight(i) ==
    \E s \in Sockets :
        pc[s] \in {"comment_find", "comment_notify"} /\ loc[s].commentId = i

\* for every comment: never a notification for its author or for a user who
\* is neither a collaborator nor the owner, never more than one for anybody,
\* and, once its handler is over, one for every collaborator and for the
\* owner other than the author
NotifiedOnce ==
    \A i \in 1..Len(comments), u \in Users :
        LET r    == comments[i].sermonId
            due  == /\ u # comments[i].createdById
                    /\ (u \in DOMAIN collaborators[r] \/ u = SermonCreatedBy(r))
            n    == Cardinality(NotificationsFor(i, u))
        IN  /\ ~due => n = 0
            /\ n <= 1
            /\ (due /\ ~CommentInFlight(i)) => n = 1

\* C27: when a principal adds a comment on a sermon, every connection joined
\* to the room receives comment_added, and exactly one notification record is
\* created for each collaborator and for the owner of the sermon other than
\* the author, and none for the author.
C27_CommentNotifies ==
    [][/\ \A s \in Sockets, r \in Rooms :
             CommentStart(s, r)
             => /\ lastEmit'.event = "comment_added"
                /\ lastEmit'.to = rooms[r]
       /\ NotifiedOnce']_vars

\* C28: a joinSession call never hangs: within 10 seconds of being issued
\* its promise has resolved, a session snapshot for the join having arrived,
\* or rejected, an error event having arrived or the timeout having fired;
\* it resolves only after a session snapshot has been received.
C28_JoinSettles ==
    \A i \in DOMAIN client.calls :
        LET call == client.calls[i]
        IN  /\ call.state = "pending"
               => /\ now <= call.issuedAt + JOIN_TIMEOUT
                  /\ call.timer
            /\ call.state = "resolved" => call.snapshot = call.room
            /\ call.state = "rejected" => call.cause \in {"error", "timeout"}

\* the operation log stored for room r
StoredLog(r) == IF sessions[r] = NoSession THEN <<>> ELSE sessions[r].operations

\* the last n entries of a log
Newest(log, n) == IF Len(log) > n THEN SubSeq(log, Len(log) - n + 1, Len(log)) ELSE log

\* C29: the operation log of every session record holds at most 100
\* operations, and after an accepted edit it consists of the most recent
\* operations in the order they were logged: the log as it was, followed by
\* the operation of the edit, less the oldest entries beyond 100.
C29_LogKeepsNewest ==
    [][/\ \A r \in Rooms :
             sessions'[r] # NoSession
             => Len(sessions'[r].operations) <= OPERATIONS_MAX_LENGTH
       /\ \A s \in Sockets :
             EditSet(s)
             => LET r   == loc[s].roomId
                    new == sessions'[r].operations
                IN  /\ new # <<>>
                    /\ new = Newest(Append(StoredLog(r), new[Len(new)]),
                                    OPERATIONS_MAX_LENGTH)]_vars

\* the entries of the stored log of room r that are edits of block b
LoggedEdits(r, b) ==
    {k \in 1..Len(StoredLog(r)) : StoredLog(r)[k].blockId = b}

\* C30: the operation log holds an entry only for an edit whose new content
\* was persisted and whose version record was appended: once no handler is
\* running, the log of a room holds no more edits of a block than the block
\* has version records, and an edit that failed in the document store has
\* left no entry.
C30_LoggedOnlyIfPersisted ==
    ((\A s \in Sockets : pc[s] = "idle") /\ spc = "idle")
    => \A r \in Rooms, b \in Blocks :
          Cardinality(LoggedEdits(r, b)) <= Len(versions[b])

\* C31: when the socket reconnects after an unexpected disconnect that
\* happened while a session was active, the client emits join for that
\* session again, so that the user is listed in its participants again.
C31_RejoinOnReconnect ==
    [][(SocketReconnects /\ client.sessionAtDrop # "none")
       => \E k \in 1..Len(client'.requests) :
             client'.requests[k] = client.sessionAtDrop]_vars

\* no handler and no sweep is in flight
Quiescent == (\A s \in Sockets : pc[s] = "idle") /\ spc = "idle"

\* the users listed in the session record of room r
Participants(r) ==
    IF sessions[r] = NoSession THEN {} ELSE DOMAIN sessions[r].activeUsers

\* the users with at least one live connection joined to room r
UsersInRoom(r) == {UserOf(s) : s \in {x \in rooms[r] : connected[x]}}

\* C32: whenever no handler is in flight, the participants of the session
\* record of a room are the users that have a live connection joined to the
\* room; a user with two connections in the room stays listed after one of
\* them leaves or disconnects.
C32_PresenceMatchesRoom ==
    Quiescent => \A r \in Rooms : Participants(r) = UsersInRoom(r)

\* C33: if user U is listed as a participant of the session record of room
\* R, then R is in U's set of rooms in the store, so that a later disconnect
\* of U finds R; this also after a disconnect handler of one connection has
\* interleaved with a join from another connection of the same user.
C33_ReverseIndex ==
    Quiescent
    => \A r \in Rooms : \A u \in Participants(r) : r \in userSessions[u]

\* the join of the caller's principal to r went through: the access check
\* passes for the sermon of r and the principal is a participant of its session
MayWrite(s, r) ==
    checkCollaborationAccess(UserOf(s), r) /\ UserOf(s) \in Participants(r)

\* C34: a step that changes a block's stored content or creates a block, and
\* a step that broadcasts block_updated or block_created to a room, is a step
\* of a handler whose principal has access to the room's sermon and is a
\* participant of the room's session; a block:edit from a connection that has
\* not joined the room it names is answered with an error and goes no further
C34_OnlyParticipantsWrite ==
    [][/\ \A s \in Sockets :
            (EditUpdate(s) /\ blocks' # blocks) => MayWrite(s, loc[s].roomId)
       /\ \A s \in Sockets, r \in Rooms : CreateStart(s, r) => MayWrite(s, r)
       /\ lastEmit'.event \in {"block_updated", "block_created"}
            => MayWrite(lastEmit'.from, lastEmit'.sessionId)
       /\ \A s \in Sockets, r \in Rooms, b \in Blocks, o \in Operations :
            (EditArrives(s, r, b, o) /\ s \notin rooms[r])
            => (lastEmit'.event = "error" /\ pc'[s] = "idle")]_vars

NoEditInFlight == \A s \in Sockets : loc[s].kind # "edit"

\* the block's content has been written by an edit, or a version of it exists
Edited(b) == versions[b] # <<>> \/ blocks[b] # <<"x">>

LastVersion(b) == versions[b][Len(versions[b])]

\* C35: whenever no block:edit handler is in flight, every block that has
\* been edited has a version record and its stored content is the content of
\* the version appended last
C35_ContentIsLastVersion ==
    NoEditInFlight =>
        \A b \in Blocks :
            Edited(b) => (versions[b] # <<>> /\ blocks[b] = LastVersion(b))

\* the handler is in its inner catch: it has sent EDIT_ERROR to its socket
Reported(s) == pc[s] \in {"edit_release_get", "edit_release_set"}

\* the step emits an outcome of a block:edit of s
Outcome(s) ==
    /\ lastEmit'.event \in {"error", "block_updated"}
    /\ lastEmit'.from = s

\* C36: a block:edit event produces exactly one outcome, a block_updated
\* broadcast or an error event to its socket: a handler that has reported
\* an error emits nothing more, and a handler that ends without having
\* reported emits its outcome in its last step
C36_OneOutcome ==
    [][\A s \in Sockets :
         /\ (Reported(s) /\ pc'[s] # pc[s]) => ~Outcome(s)
         /\ (loc[s].kind = "edit" /\ ~Reported(s) /\ pc'[s] = "idle") => Outcome(s)
         /\ \A r \in Rooms, b \in Blocks, o \in Operations :
              ((EditStart(s, r, b, o) \/ EditGetFails(s, r, b, o)) /\ pc'[s] = "idle")
              => Outcome(s)]_vars

\* the step ends the join of s with an error event to s
JoinEndsInError(s) ==
    /\ lastEmit'.event = "error"
    /\ lastEmit'.from = s
    /\ lastEmit'.data.code \in {"PERMISSION_DENIED", "USER_NOT_FOUND", "JOIN_ERROR"}
    /\ pc'[s] = "idle"

\* the store and the rooms before the first event of a behaviour
NothingJoined ==
    /\ \A r \in Rooms : rooms[r] = {} /\ sessions[r] = NoSession
    /\ \A u \in Users : userSessions[u] = {}

\* C37: a join that ends with PERMISSION_DENIED, USER_NOT_FOUND or JOIN_ERROR
\* leaves no trace.  Stated for the first event of a behaviour, before which
\* no socket is in a room and the store is empty: when that join ends with an
\* error, the socket is in no room, no session record exists and every
\* reverse index is empty
C37_FailedJoinAtomic ==
    [][\A s \in Sockets :
         (events' = 1 /\ JoinEndsInError(s)) => NothingJoined']_vars

\* a principal other than that of s holds a lock on b that has not expired
HeldByOther(b, s) ==
    \E r \in Rooms :
        /\ sessions[r] # NoSession
        /\ ValidLock(sessions[r], b)
        /\ sessions[r].locks[b].userId # UserOf(s)

\* C38: while another principal holds a non-expired lock on a block, no step
\* of a handler changes or removes the block's stored content, and a
\* block:delete of the block is answered with an error and goes no further
C38_LockShieldsBlock ==
    [][\A s \in Sockets, b \in Blocks :
         HeldByOther(b, s) =>
            /\ ((EditUpdate(s) \/ DeleteDelete(s)) /\ loc[s].blockId = b)
                 => blocks'[b] = blocks[b]
            /\ \A r \in Rooms :
                 DeleteStart(s, r, b) => (lastEmit'.event = "error" /\ pc'[s] = "idle")]_vars

====
